---------------------------- MODULE Spec2Model ----------------------------
(***************************************************************************)
(* Model of the merge core of python-ppl: Contact.compare_rev and          *)
(* Contact.merge_from (ppl/models/contact.py), the ContactGraph store       *)
(* operations add_contact, update_contact, merge_contact, remove_contact    *)
(* and add_relationship, and the JSON and GraphML codecs behind save and    *)
(* load (ppl/models/graph.py); the filter pipeline                          *)
(* (ppl/models/pipeline.py), the bulk export and import of the vCard and    *)
(* Markdown adapters (ppl/serializers), the consistency service             *)
(* (ppl/services/consistency.py) and the import and check-consistency       *)
(* commands (ppl/cli.py).                                                   *)
(*                                                                         *)
(* Optional values (Optional[...] in the source) are sequences of length    *)
(* at most one: None is <<>> and a present value v is <<v>>.  Revision      *)
(* timestamps (datetime) are the integers 1..MaxRev, which keep the total   *)
(* order datetime comparison gives; all revisions are taken to be of one    *)
(* kind (comparing an offset-naive with an offset-aware datetime raises     *)
(* TypeError in compare_rev and is outside this model).  Contacts are       *)
(* values: a stored contact and the caller's object it aliases are not      *)
(* told apart.                                                              *)
(***************************************************************************)
EXTENDS Integers, Sequences, FiniteSets, TLC

VARIABLES
    self,           \* merge_from: the contact merged into (a)
    other,          \* merge_from: the contact merged from (b)
    prefer_newer,   \* merge_from: the prefer_newer argument
    before,         \* merge_from: [self, other] as they were when called
    pc,             \* merge_from: "ready" before the call, "done" after it
    contacts,       \* ContactGraph._contacts: uid -> Contact
    graph,          \* ContactGraph.graph: [nodes, edges] of the DiGraph
    last,           \* the last call: [op, arg, ret]
    file,           \* the graph file on disk: None or Some([ext, content])
    loaded,         \* a second ContactGraph, the one load is called on
    pipeline,       \* a FilterPipeline: [filters, handled], handled the
                    \* on_error calls of its filters
    folders         \* the contact folders on disk, by format: None or
                    \* Some(file name -> file text)

vars ==
    <<self, other, prefer_newer, before, pc, contacts, graph, last, file,
      loaded, pipeline, folders>>

mergeVars == <<self, other, prefer_newer, before, pc>>
storeVars == <<contacts, graph, last>>
persistVars == <<file, loaded>>
serviceVars == <<pipeline, folders>>

----------------------------------------------------------------------------
(* Bounds *)

MaxRev == 2      \* revisions are None or 1..MaxRev
MaxList == 2     \* longest collection list drawn as an input
MaxRel == 2      \* longest relationship list drawn as an input
MaxEdges == 2    \* most edges of a graph drawn as an input of save

----------------------------------------------------------------------------
(* Values *)

None == <<>>
Some(v) == <<v>>
Opt(S) == {None} \cup {Some(v) : v \in S}

Range(s) == {s[i] : i \in 1..Len(s)}

SeqUpTo(S, n) == UNION {[1..k -> S] : k \in 0..n}

\* contact.py:123-127
simple_fields ==
    {"n", "photo", "bday", "anniversary", "gender", "tz", "title", "role",
     "logo", "note", "prodid", "sound", "fburl", "caladruri", "caluri"}

\* contact.py:149-152
list_fields ==
    {"nickname", "email", "tel", "impp", "lang", "adr", "org", "member",
     "categories", "url", "key"}

\* the two dict fields merged at contact.py:176-190
dict_fields == {"x_properties", "clientpidmap"}

\* Optional[str] scalar values; the empty string is a str, not None
ScalarVals == Opt({"", "A", "B"})
GeoVals == Opt({<<40, -74>>, <<34, -118>>})
RevVals == Opt(1..MaxRev)
Items == {"x", "y"}
DictKeys == {"k1", "k2"}
DictVals == {"", "v1", "v2"}
Dicts == UNION {[D -> DictVals] : D \in SUBSET DictKeys}
EmptyDict == [k \in {} |-> ""]

\* contact.py:200-209; a text-only entry carries the empty uri that the
\* adapters give it (markdown.py:257, yaml_serializer.py:255,
\* relationship.py:33)
Related(uri, type, text_value, pref) ==
    [uri |-> uri, type |-> type, text_value |-> text_value, pref |-> pref]

RelatedVals ==
    { Related("urn:uuid:p1", <<"friend">>, None, None),
      Related("urn:uuid:p1", <<"colleague">>, None, None),
      Related("urn:uuid:p2", <<"friend">>, None, None),
      Related("", <<"friend">>, Some("Bob"), None),
      Related("", <<"friend">>, Some("Carol"), None) }

\* the outcome of a call: the value returned, or the error raised
Returned(v) == [raises |-> None, value |-> v]
Raised(e) == [raises |-> Some(e), value |-> None]

\* contact.py:9-69
Contact(uid, rev, simple, geo, lists, related, dicts) ==
    [fn |-> "Name", version |-> "4.0", uid |-> uid, rev |-> rev,
     simple |-> simple, geo |-> geo, lists |-> lists, related |-> related,
     dicts |-> dicts]

NoSimple == [f \in simple_fields |-> None]
NoLists == [f \in list_fields |-> <<>>]
NoDicts == [f \in dict_fields |-> EmptyDict]

\* one field set to v, every other one to bg
Probe(fields, f, v, bg) == [g \in fields |-> IF g = f THEN v ELSE bg]

----------------------------------------------------------------------------
(* Contact.compare_rev, contact.py:76-96 *)

\* mutant: an absent revision of other counts as newer than a present one
compare_rev_absent_newer(s, o) ==
    IF s.rev = None /\ o.rev = None THEN 0
    ELSE IF s.rev = None THEN -1
    ELSE IF o.rev = None THEN -1
    ELSE IF s.rev[1] < o.rev[1] THEN -1
    ELSE IF s.rev[1] > o.rev[1] THEN 1
    ELSE 0

compare_rev(s, o) ==
    IF s.rev = None /\ o.rev = None THEN 0
    ELSE IF s.rev = None THEN -1
    ELSE IF o.rev = None THEN 1
    ELSE IF s.rev[1] < o.rev[1] THEN -1
    ELSE IF s.rev[1] > o.rev[1] THEN 1
    ELSE 0

(* Contact.merge_from, contact.py:98-197 *)

\* mutant: an equal revision counts as newer
other_is_newer_or_equal(s, o, pn) == pn /\ compare_rev(s, o) <= 0

\* contact.py:117-120
other_is_newer(s, o, pn) == pn /\ compare_rev(s, o) < 0

\* contact.py:130-140, one iteration of the loop over simple_fields
merge_simple(self_value, other_value, newer) ==
    IF other_value # None /\ self_value = None THEN other_value
    ELSE IF other_value # None /\ self_value # None /\ newer THEN other_value
    ELSE self_value

\* contact.py:142-146
merge_geo(self_geo, other_geo, newer) ==
    IF other_geo # None /\ self_geo = None THEN other_geo
    ELSE IF other_geo # None /\ self_geo # None /\ newer THEN other_geo
    ELSE self_geo

\* mutant: extend without the membership test
merge_list_extend(self_list, other_list) == self_list \o other_list

\* contact.py:160-163, the loop over other_list appending to self_list
RECURSIVE merge_list(_, _)
merge_list(self_list, other_list) ==
    IF other_list = <<>> THEN self_list
    ELSE merge_list(IF Head(other_list) \in Range(self_list)
                        THEN self_list
                        ELSE Append(self_list, Head(other_list)),
                    Tail(other_list))

\* contact.py:170-174, the loop over other.related with existing_uris
RECURSIVE merge_related_loop(_, _, _)
merge_related_loop(self_related, existing_uris, other_related) ==
    IF other_related = <<>> THEN self_related
    ELSE IF Head(other_related).uri \notin existing_uris
         THEN merge_related_loop(Append(self_related, Head(other_related)),
                                 existing_uris \cup {Head(other_related).uri},
                                 Tail(other_related))
         ELSE merge_related_loop(self_related, existing_uris,
                                 Tail(other_related))

\* mutant: append every entry of other
merge_related_append_all(self_related, other_related) ==
    self_related \o other_related

\* mutant: deduplicate on the whole entry (uri and type) instead of the uri
merge_related_by_entry(self_related, other_related) ==
    merge_list(self_related, other_related)

\* contact.py:165-174
merge_related(self_related, other_related) ==
    merge_related_loop(self_related,
                       {self_related[i].uri : i \in 1..Len(self_related)},
                       other_related)

\* mutant: dict.update, other's value always wins
merge_dict_update(self_dict, other_dict, newer) ==
    [k \in DOMAIN self_dict \cup DOMAIN other_dict |->
        IF k \in DOMAIN other_dict THEN other_dict[k] ELSE self_dict[k]]

\* contact.py:176-190, the same loop for x_properties and clientpidmap
merge_dict(self_dict, other_dict, newer) ==
    [k \in DOMAIN self_dict \cup DOMAIN other_dict |->
        IF k \notin DOMAIN self_dict THEN other_dict[k]
        ELSE IF k \in DOMAIN other_dict /\ newer THEN other_dict[k]
        ELSE self_dict[k]]

\* mutant: take other's revision whenever it has one
merge_rev_overwrite(self_rev, other_rev) ==
    IF other_rev # None THEN other_rev ELSE self_rev

\* contact.py:192-195
merge_rev(self_rev, other_rev) ==
    IF other_rev # None /\ (self_rev = None \/ other_rev[1] > self_rev[1])
        THEN other_rev
        ELSE self_rev

\* contact.py:98-197: the contact self is after self.merge_from(other, pn)
merge_from(s, o, pn) ==
    [fn |-> s.fn, version |-> s.version, uid |-> s.uid,
     rev |-> merge_rev(s.rev, o.rev),
     simple |-> [f \in simple_fields |->
                    merge_simple(s.simple[f], o.simple[f],
                                 other_is_newer(s, o, pn))],
     geo |-> merge_geo(s.geo, o.geo, other_is_newer(s, o, pn)),
     lists |-> [f \in list_fields |-> merge_list(s.lists[f], o.lists[f])],
     related |-> merge_related(s.related, o.related),
     dicts |-> [f \in dict_fields |->
                    merge_dict(s.dicts[f], o.dicts[f],
                               other_is_newer(s, o, pn))]]

\* mutant: a symmetric merge that also brings other's revision up to date
merge_from_other_synced(s, o, pn) == [o EXCEPT !.rev = merge_rev(o.rev, s.rev)]

\* contact.py:98-197: the contact other is after self.merge_from(other, pn);
\* no statement of merge_from assigns to other or to one of its containers
merge_from_other(s, o, pn) == o

----------------------------------------------------------------------------
(* Inputs of merge_from: pairs of contacts of the same uid.  Each family    *)
(* varies one group of fields of both contacts over all its values.        *)

\* self and other as drawn, before the call
Drawn(s, o) ==
    /\ self = s
    /\ other = o
    /\ before = [self |-> s, other |-> o]

ScalarPairs ==
    \E f \in simple_fields, va \in ScalarVals, vb \in ScalarVals,
       bga \in {None, Some("A")}, bgb \in {None, Some("B")},
       ra \in RevVals, rb \in RevVals :
        Drawn(Contact(Some("u1"), ra, Probe(simple_fields, f, va, bga),
                      None, NoLists, <<>>, NoDicts),
              Contact(Some("u1"), rb, Probe(simple_fields, f, vb, bgb),
                      None, NoLists, <<>>, NoDicts))

GeoPairs ==
    \E ga \in GeoVals, gb \in GeoVals, ra \in RevVals, rb \in RevVals :
        Drawn(Contact(Some("u1"), ra, NoSimple, ga, NoLists, <<>>, NoDicts),
              Contact(Some("u1"), rb, NoSimple, gb, NoLists, <<>>, NoDicts))

ListPairs ==
    \E f \in list_fields, la \in SeqUpTo(Items, MaxList),
       lb \in SeqUpTo(Items, MaxList), ra \in RevVals, rb \in RevVals :
        Drawn(Contact(Some("u1"), ra, NoSimple, None,
                      Probe(list_fields, f, la, <<>>), <<>>, NoDicts),
              Contact(Some("u1"), rb, NoSimple, None,
                      Probe(list_fields, f, lb, <<"x">>), <<>>, NoDicts))

RelatedPairs ==
    \E la \in SeqUpTo(RelatedVals, MaxRel),
       lb \in SeqUpTo(RelatedVals, MaxRel), rb \in Opt({1}) :
        Drawn(Contact(Some("u1"), None, NoSimple, None, NoLists, la, NoDicts),
              Contact(Some("u1"), rb, NoSimple, None, NoLists, lb, NoDicts))

DictPairs ==
    \E f \in dict_fields, da \in Dicts, db \in Dicts,
       ra \in RevVals, rb \in RevVals :
        Drawn(Contact(Some("u1"), ra, NoSimple, None, NoLists, <<>>,
                      Probe(dict_fields, f, da, EmptyDict)),
              Contact(Some("u1"), rb, NoSimple, None, NoLists, <<>>,
                      Probe(dict_fields, f, db, [k \in {"k1"} |-> "v1"])))

\* other is a copy of self
CopyPairs ==
    \/ \E r \in RevVals, v \in ScalarVals, g \in GeoVals,
          la \in SeqUpTo(Items, MaxList), da \in Dicts :
            Drawn(Contact(Some("u1"), r, Probe(simple_fields, "note", v, None),
                          g, Probe(list_fields, "tel", la, <<"x">>), <<>>,
                          Probe(dict_fields, "x_properties", da, EmptyDict)),
                  Contact(Some("u1"), r, Probe(simple_fields, "note", v, None),
                          g, Probe(list_fields, "tel", la, <<"x">>), <<>>,
                          Probe(dict_fields, "x_properties", da, EmptyDict)))
    \/ \E r \in RevVals, la \in SeqUpTo(RelatedVals, MaxRel) :
            Drawn(Contact(Some("u1"), r, NoSimple, None, NoLists, la, NoDicts),
                  Contact(Some("u1"), r, NoSimple, None, NoLists, la, NoDicts))

MergePairs ==
    \/ ScalarPairs
    \/ GeoPairs
    \/ ListPairs
    \/ RelatedPairs
    \/ DictPairs
    \/ CopyPairs

NoContact == Contact(None, None, NoSimple, None, NoLists, <<>>, NoDicts)

----------------------------------------------------------------------------
(* The merge_from specification: draw self, other and prefer_newer, then    *)
(* call self.merge_from(other, prefer_newer).                               *)

StoreIdle ==
    /\ contacts = [u \in {} |-> NoContact]
    /\ graph = [nodes |-> {}, edges |-> [e \in {} |-> EmptyDict]]
    /\ last = [op |-> "none", arg |-> NoContact, ret |-> Returned(None)]

\* a ContactGraph as __init__ leaves it, graph.py:21-24
NewGraph ==
    [contacts |-> [u \in {} |-> NoContact],
     graph |-> [nodes |-> {}, edges |-> [e \in {} |-> EmptyDict]]]

PersistIdle ==
    /\ file = None
    /\ loaded = NewGraph

\* FilterPipeline.__init__, pipeline.py:15-24
NewPipeline == [filters |-> <<>>, handled |-> <<>>]

\* no folder exists
NoFolders == [vcf |-> None, markdown |-> None, yaml |-> None]

ServiceIdle ==
    /\ pipeline = NewPipeline
    /\ folders = NoFolders

InitMerge ==
    /\ MergePairs
    /\ prefer_newer \in BOOLEAN
    /\ pc = "ready"
    /\ StoreIdle
    /\ PersistIdle
    /\ ServiceIdle

\* self.merge_from(other, prefer_newer), contact.py:98-197
MergeFromCall ==
    /\ pc = "ready"
    /\ before' = [self |-> self, other |-> other]
    /\ self' = merge_from(self, other, prefer_newer)
    /\ other' = merge_from_other(self, other, prefer_newer)
    /\ pc' = "done"
    /\ last' = [op |-> "merge_from", arg |-> other,
                ret |-> Returned(merge_from(self, other, prefer_newer))]
    /\ UNCHANGED <<prefer_newer, contacts, graph, persistVars,
                   serviceVars>>

NextMerge == MergeFromCall

SpecMerge == InitMerge /\ [][NextMerge]_vars

----------------------------------------------------------------------------
(* ContactGraph, graph.py:13-158.  _contacts is the function contacts; the  *)
(* DiGraph is graph = [nodes, edges], edges a function from <<source,       *)
(* target>> to the edge attributes.  The node attribute 'contact' is the    *)
(* same object as _contacts[uid] and is not kept twice.  Every call leaves   *)
(* its name, argument and outcome (return value or the error raised) in     *)
(* last.                                                                    *)

\* mutant: only a missing uid is refused, the empty string is taken as an id
NoUid_none_only(c) == c.uid = None

\* `not contact.uid`: None and the empty string are both falsy
NoUid(c) == c.uid = None \/ c.uid = Some("")

\* dict assignment d[k] = v
Put(d, k, v) == [x \in DOMAIN d \cup {k} |-> IF x = k THEN v ELSE d[x]]

\* del d[k]
Del(d, k) == [x \in DOMAIN d \ {k} |-> d[x]]

Called(op, arg, ret) == last' = [op |-> op, arg |-> arg, ret |-> ret]

\* nx.DiGraph.add_node(uid, contact=contact), graph.py:40
add_node(g, uid) == [g EXCEPT !.nodes = @ \cup {uid}]

\* nx.DiGraph.remove_node(uid), graph.py:126-127: the node and every edge
\* into or out of it
remove_node(g, uid) ==
    [nodes |-> g.nodes \ {uid},
     edges |-> [e \in {d \in DOMAIN g.edges : d[1] # uid /\ d[2] # uid} |->
                    g.edges[e]]]

\* nx.DiGraph.add_edge(u, v, **attr), graph.py:152-158
add_edge(g, u, v, attr) ==
    [nodes |-> g.nodes \cup {u, v}, edges |-> Put(g.edges, <<u, v>>, attr)]

\* ContactGraph.add_contact, graph.py:26-40
add_contact(c) ==
    IF NoUid(c)
        THEN /\ Called("add_contact", c, Raised("ValueError"))
             /\ UNCHANGED <<contacts, graph>>
        ELSE /\ contacts' = Put(contacts, c.uid[1], c)
             /\ graph' = add_node(graph, c.uid[1])
             /\ Called("add_contact", c, Returned(None))

\* mutant: the new version is merged into the stored one
update_contact_merging(c) ==
    IF NoUid(c) \/ c.uid[1] \notin DOMAIN contacts
        THEN /\ Called("update_contact", c, Raised("ValueError"))
             /\ UNCHANGED <<contacts, graph>>
        ELSE /\ contacts' = Put(contacts, c.uid[1],
                                merge_from(contacts[c.uid[1]], c, TRUE))
             /\ graph' = graph
             /\ Called("update_contact", c, Returned(None))

\* ContactGraph.update_contact, graph.py:42-59
update_contact(c) ==
    IF NoUid(c) \/ c.uid[1] \notin DOMAIN contacts
        THEN /\ Called("update_contact", c, Raised("ValueError"))
             /\ UNCHANGED <<contacts, graph>>
        ELSE /\ contacts' = Put(contacts, c.uid[1], c)
             /\ graph' = graph
             /\ Called("update_contact", c, Returned(None))

\* mutant: an equal revision is skipped too
skip_incoming_or_equal(existing, c) == compare_rev(existing, c) >= 0

\* graph.py:93-95: rev_comparison > 0
skip_incoming(existing, c) == compare_rev(existing, c) > 0

\* ContactGraph.merge_contact, graph.py:61-102
merge_contact(c) ==
    IF NoUid(c)
        THEN /\ Called("merge_contact", c, Raised("ValueError"))
             /\ UNCHANGED <<contacts, graph>>
    ELSE IF c.uid[1] \notin DOMAIN contacts
        THEN \* self.add_contact(contact)
             /\ contacts' = Put(contacts, c.uid[1], c)
             /\ graph' = add_node(graph, c.uid[1])
             /\ Called("merge_contact", c, Returned(<<TRUE, "added">>))
    ELSE IF skip_incoming(contacts[c.uid[1]], c)
        THEN /\ Called("merge_contact", c, Returned(<<FALSE, "skipped">>))
             /\ UNCHANGED <<contacts, graph>>
        ELSE \* existing.merge_from(contact, prefer_newer=True);
             \* self.update_contact(existing)
             /\ contacts' = Put(contacts, c.uid[1],
                                merge_from(contacts[c.uid[1]], c, TRUE))
             /\ graph' = graph
             /\ Called("merge_contact", c, Returned(<<TRUE, "updated">>))

\* mutant: the contact is dropped from _contacts only
remove_contact_contacts_only(uid) ==
    /\ contacts' = IF uid \in DOMAIN contacts THEN Del(contacts, uid)
                                               ELSE contacts
    /\ graph' = graph
    /\ Called("remove_contact", uid, Returned(None))

\* ContactGraph.remove_contact, graph.py:116-127
remove_contact(uid) ==
    /\ contacts' = IF uid \in DOMAIN contacts THEN Del(contacts, uid)
                                               ELSE contacts
    /\ graph' = IF uid \in graph.nodes THEN remove_node(graph, uid) ELSE graph
    /\ Called("remove_contact", uid, Returned(None))

\* relationship.py:11-21; source and target are given by the uid of the
\* contact they refer to, None for a missing contact or one without uid
Relationship(source, target, types, directional, metadata) ==
    [source |-> source, target |-> target, types |-> types,
     directional |-> directional, metadata |-> metadata]

\* ContactGraph.add_relationship, graph.py:129-158
add_relationship(rel) ==
    IF \/ rel.source = None \/ rel.source = Some("")
       \/ rel.target = None \/ rel.target = Some("")
       \/ rel.source[1] \notin DOMAIN contacts
       \/ rel.target[1] \notin DOMAIN contacts
        THEN /\ Called("add_relationship", rel, Raised("ValueError"))
             /\ UNCHANGED <<contacts, graph>>
        ELSE /\ graph' = add_edge(graph, rel.source[1], rel.target[1],
                                  [types |-> rel.types,
                                   directional |-> rel.directional,
                                   metadata |-> rel.metadata])
             /\ contacts' = contacts
             /\ Called("add_relationship", rel, Returned(None))

----------------------------------------------------------------------------
(* The store specification: any sequence of store calls on an empty graph *)

Uids == {"u1", "u2"}

\* the (title, email) contents of the contacts handed to the store
Profiles ==
    { <<None, <<>> >>, <<Some(""), <<>> >>,
      <<Some("A"), <<"x">> >>, <<Some("B"), <<"y">> >> }

\* the contacts handed to add_contact, update_contact and merge_contact
Incoming ==
    { Contact(Some("u1"), r, Probe(simple_fields, "title", p[1], None), None,
              Probe(list_fields, "email", p[2], <<>>), <<>>, NoDicts) :
        r \in RevVals, p \in Profiles }
    \cup
    { Contact(Some("u2"), r, NoSimple, None, NoLists, <<>>, NoDicts) :
        r \in Opt({1}) }
    \cup
    { Contact(u, None, NoSimple, None, NoLists, <<>>, NoDicts) :
        u \in {None, Some("")} }

\* the relationships handed to add_relationship
Relationships ==
    { Relationship(p[1], p[2], <<"friend">>, TRUE, EmptyDict) :
        p \in { <<Some("u1"), Some("u2")>>, <<Some("u2"), Some("u1")>>,
                <<Some("u1"), Some("u1")>>, <<None, Some("u1")>>,
                <<Some("u1"), None>>, <<Some("u3"), Some("u1")>>,
                <<Some("u1"), Some("u3")>> } }

MergeIdle ==
    /\ self = NoContact
    /\ other = NoContact
    /\ prefer_newer = TRUE
    /\ before = [self |-> NoContact, other |-> NoContact]
    /\ pc = "idle"

Init ==
    /\ contacts = [u \in {} |-> NoContact]
    /\ graph = [nodes |-> {}, edges |-> [e \in {} |-> EmptyDict]]
    /\ last = [op |-> "none", arg |-> NoContact, ret |-> Returned(None)]
    /\ MergeIdle
    /\ PersistIdle
    /\ ServiceIdle

AddContact ==
    \E c \in Incoming :
        add_contact(c) /\ UNCHANGED <<mergeVars, persistVars, serviceVars>>
UpdateContact ==
    \E c \in Incoming :
        update_contact(c) /\ UNCHANGED <<mergeVars, persistVars, serviceVars>>
MergeContact ==
    \E c \in Incoming :
        merge_contact(c) /\ UNCHANGED <<mergeVars, persistVars, serviceVars>>
RemoveContact ==
    \E u \in Uids :
        remove_contact(u) /\ UNCHANGED <<mergeVars, persistVars, serviceVars>>
AddRelationship ==
    \E rel \in Relationships :
        /\ add_relationship(rel)
        /\ UNCHANGED <<mergeVars, persistVars, serviceVars>>

Next ==
    \/ AddContact
    \/ UpdateContact
    \/ MergeContact
    \/ RemoveContact
    \/ AddRelationship

Spec == Init /\ [][Next]_vars

----------------------------------------------------------------------------
(* ContactGraph.save and ContactGraph.load, graph.py:216-645.  A value in   *)
(* a file is tagged with what it is there: "str" a plain string,            *)
(* "jsontext" a string holding the JSON text of the value, "isotext" a      *)
(* string holding the ISO 8601 text of a revision, "native" a value the     *)
(* file format holds itself (a JSON array, object or boolean, a GraphML     *)
(* boolean).                                                                *)

PlainStr(v) == [kind |-> "str", value |-> v]
Native(v) == [kind |-> "native", value |-> v]

\* json.dumps(v): a str holding the JSON text of v
json_dumps(v) == [kind |-> "jsontext", value |-> v]

\* json.loads(x): the value of a JSON text, JSONDecodeError for another
\* string, TypeError for what is not a string
json_loads(x) ==
    IF x.kind = "jsontext" THEN Returned(x.value)
    ELSE IF x.kind = "native" THEN Raised("TypeError")
    ELSE Raised("JSONDecodeError")

\* datetime.isoformat()
isoformat(r) == [kind |-> "isotext", value |-> r]

\* datetime.fromisoformat(x)
fromisoformat(x) ==
    IF x.kind = "isotext" THEN Returned(x.value)
    ELSE IF x.kind = "native" THEN Raised("TypeError")
    ELSE Raised("ValueError")

\* `if contact.title:` and the like: None and the empty string are falsy
Truthy(v) == v # None /\ v # Some("")

\* the scalar fields _serialize_contact writes, graph.py:449-498
serialized_simple ==
    {"n", "title", "role", "note", "bday", "anniversary", "gender", "photo",
     "tz"}

\* the list fields _serialize_contact writes, graph.py:455-483
serialized_lists ==
    {"email", "tel", "adr", "org", "categories", "url", "nickname"}

\* graph.py:505-513: the dict written for one Related
related_dict(rel) ==
    [uri |-> rel.uri, type |-> rel.type, text_value |-> rel.text_value,
     pref |-> rel.pref]

\* ContactGraph._serialize_contact, graph.py:429-516
serialize_contact(c) ==
    LET keys ==
            {"fn", "version"}
            \cup (IF Truthy(c.uid) THEN {"uid"} ELSE {})
            \cup (IF c.rev # None THEN {"rev"} ELSE {})
            \cup {f \in serialized_simple : Truthy(c.simple[f])}
            \cup {f \in serialized_lists : c.lists[f] # <<>>}
            \cup (IF c.geo # None THEN {"geo"} ELSE {})
            \cup (IF c.related # <<>> THEN {"related"} ELSE {})
    IN [k \in keys |->
            IF k = "fn" THEN PlainStr(c.fn)
            ELSE IF k = "version" THEN PlainStr(c.version)
            ELSE IF k = "uid" THEN PlainStr(c.uid[1])
            ELSE IF k = "rev" THEN isoformat(c.rev[1])
            ELSE IF k \in serialized_simple THEN PlainStr(c.simple[k][1])
            ELSE IF k \in serialized_lists THEN json_dumps(c.lists[k])
            ELSE IF k = "geo" THEN json_dumps(c.geo[1])
            ELSE json_dumps([i \in 1..Len(c.related) |->
                                related_dict(c.related[i])])]

\* graph.py:580-620: a list field read back, the raw string as the only
\* item when it is not JSON text
load_list(x) ==
    IF json_loads(x).raises = None THEN json_loads(x).value
    ELSE <<x.value>>

\* graph.py:622-628
load_geo(x) ==
    IF json_loads(x).raises = None /\ Len(json_loads(x).value) = 2
        THEN Some(json_loads(x).value)
        ELSE None

\* graph.py:631-643
load_related(x) ==
    IF json_loads(x).raises = None
        THEN [i \in 1..Len(json_loads(x).value) |->
                Related(json_loads(x).value[i].uri,
                        json_loads(x).value[i].type,
                        json_loads(x).value[i].text_value,
                        json_loads(x).value[i].pref)]
        ELSE <<>>

\* graph.py:545-549
load_rev(x) ==
    IF fromisoformat(x).raises = None THEN Some(fromisoformat(x).value)
    ELSE None

\* graph.py:534-535 and contact.py:71-74: Contact(fn=data.get('fn', ''))
\* raises ValueError for a node without display name
valid_node(data) == "fn" \in DOMAIN data /\ data["fn"].value # ""

\* ContactGraph._deserialize_contact, graph.py:518-645, of a node with a
\* display name
deserialize_contact(uid, data) ==
    [fn |-> data["fn"].value,
     version |-> IF "version" \in DOMAIN data THEN data["version"].value
                                              ELSE "4.0",
     uid |-> IF "uid" \in DOMAIN data THEN Some(data["uid"].value)
                                      ELSE Some(uid),
     rev |-> IF "rev" \in DOMAIN data THEN load_rev(data["rev"]) ELSE None,
     simple |-> [f \in simple_fields |->
                    IF f \in serialized_simple /\ f \in DOMAIN data
                        THEN Some(data[f].value) ELSE None],
     geo |-> IF "geo" \in DOMAIN data THEN load_geo(data["geo"]) ELSE None,
     lists |-> [f \in list_fields |->
                    IF f \in serialized_lists /\ f \in DOMAIN data
                        THEN load_list(data[f]) ELSE <<>>],
     related |-> IF "related" \in DOMAIN data
                    THEN load_related(data["related"]) ELSE <<>>,
     dicts |-> NoDicts]

\* graph.py:228-233 and 350-355: the format named, else the one of the
\* file extension; anything but 'json' is GraphML
resolve_format(ext, format) ==
    IF format # None THEN (IF format[1] = "json" THEN "json" ELSE "graphml")
    ELSE IF ext = ".json" THEN "json" ELSE "graphml"

\* mutant: source and target are written the wrong way round
save_json_swapped(cs, g) ==
    [format |-> "json",
     nodes |-> [u \in DOMAIN cs |-> serialize_contact(cs[u])],
     edges |-> [e \in DOMAIN g.edges |->
                  [key |-> <<e[1], "->", e[2]>>,
                   source |-> e[2],
                   target |-> e[1],
                   attributes |->
                      [types |-> Native(g.edges[e].types),
                       directional |-> Native(g.edges[e].directional),
                       metadata |-> Native(g.edges[e].metadata)]]]]

\* ContactGraph._save_json, graph.py:276-330: the document written; nodes
\* and edges are lists in the file, kept here by node key and by the
\* (source, target) of the edge they were made from
save_json(cs, g) ==
    [format |-> "json",
     nodes |-> [u \in DOMAIN cs |-> serialize_contact(cs[u])],
     edges |-> [e \in DOMAIN g.edges |->
                  [key |-> <<e[1], "->", e[2]>>,
                   source |-> e[1],
                   target |-> e[2],
                   attributes |->
                      [types |-> Native(g.edges[e].types),
                       directional |-> Native(g.edges[e].directional),
                       metadata |-> Native(g.edges[e].metadata)]]]]

\* ContactGraph._save_graphml, graph.py:243-274: lists and dicts of an edge
\* go through json.dumps, the boolean is written as it is
save_graphml(cs, g) ==
    [format |-> "graphml",
     nodes |-> [u \in DOMAIN cs |-> serialize_contact(cs[u])],
     edges |-> [e \in DOMAIN g.edges |->
                  [source |-> e[1],
                   target |-> e[2],
                   attributes |->
                      [types |-> json_dumps(g.edges[e].types),
                       directional |-> Native(g.edges[e].directional),
                       metadata |-> json_dumps(g.edges[e].metadata)]]]]

\* graph.py:388-394: a string attribute is read as JSON text when it is
\* one, anything else is taken as it is
graphml_edge_value(x) ==
    IF x.kind # "native" /\ json_loads(x).raises = None
        THEN json_loads(x).value
        ELSE x.value

\* graph.py:426-427: the attributes json.load gave
json_edge_value(x) == x.value

\* the attribute of an edge as the loader of the document's format reads it
edge_value(doc, x) ==
    IF doc.format = "json" THEN json_edge_value(x) ELSE graphml_edge_value(x)

\* the edges of a document as add_edge(source, target, **attributes) leaves
\* them
load_edges(doc) ==
    [p \in {<<doc.edges[e].source, doc.edges[e].target>> :
                e \in DOMAIN doc.edges} |->
        LET d == doc.edges[CHOOSE e \in DOMAIN doc.edges :
                    <<doc.edges[e].source, doc.edges[e].target>> = p]
        IN [types |-> edge_value(doc, d.attributes.types),
            directional |-> edge_value(doc, d.attributes.directional),
            metadata |-> edge_value(doc, d.attributes.metadata)]]

\* the graph rebuilt from the nodes and edges of a document, graph.py:373-395
\* and 411-427
load_document(doc) ==
    [contacts |-> [u \in DOMAIN doc.nodes |->
                      deserialize_contact(u, doc.nodes[u])],
     graph |-> [nodes |-> DOMAIN doc.nodes
                          \cup {doc.edges[e].source : e \in DOMAIN doc.edges}
                          \cup {doc.edges[e].target : e \in DOMAIN doc.edges},
                edges |-> load_edges(doc)]]

\* ContactGraph._load_json, graph.py:397-427
load_json(doc) == load_document(doc)

\* ContactGraph._load_graphml, graph.py:362-395
load_graphml(doc) == load_document(doc)

\* ContactGraph.save, graph.py:216-241
save(ext, format) ==
    /\ file' = Some([ext |-> ext,
                     content |->
                        IF resolve_format(ext, format) = "json"
                            THEN save_json(contacts, graph)
                            ELSE save_graphml(contacts, graph)])
    /\ Called("save", <<ext, format>>, Returned(None))
    /\ UNCHANGED <<contacts, graph, loaded>>

\* graph.py:373-381 and 411-420: the graph is cleared, then the nodes are
\* read one after the other; with a node without display name in the
\* file, seen is the set of nodes read before it
partly_loaded(doc, seen) ==
    [contacts |-> [u \in seen |-> deserialize_contact(u, doc.nodes[u])],
     graph |-> [nodes |-> seen, edges |-> [e \in {} |-> EmptyDict]]]

\* ContactGraph.load called on the graph st, graph.py:332-427: what the
\* graph can be afterwards, and what the call returned or raised.  A file
\* of the other format fails in json.load or nx.read_graphml, before the
\* graph is cleared; a node without display name fails after it
load_outcomes(st, f, format) ==
    IF f = None
        THEN {[store |-> st, ret |-> Raised("FileNotFoundError")]}
    ELSE IF resolve_format(f[1].ext, format) # f[1].content.format
        THEN {[store |-> st, ret |-> Raised("ParseError")]}
    ELSE IF \E u \in DOMAIN f[1].content.nodes :
                ~valid_node(f[1].content.nodes[u])
        THEN {[store |-> partly_loaded(f[1].content, seen),
               ret |-> Raised("ValueError")] :
                seen \in SUBSET {u \in DOMAIN f[1].content.nodes :
                                    valid_node(f[1].content.nodes[u])}}
    ELSE {[store |-> IF f[1].content.format = "json"
                        THEN load_json(f[1].content)
                        ELSE load_graphml(f[1].content),
           ret |-> Returned(None)]}

\* ContactGraph.load on the second graph
load(format) ==
    \E o \in load_outcomes(loaded, file, format) :
        /\ loaded' = o.store
        /\ Called("load", format, o.ret)
        /\ UNCHANGED <<contacts, graph, file>>

----------------------------------------------------------------------------
(* The persistence specification: a populated graph is saved to a file in  *)
(* either format and the file is loaded into a second graph.               *)

Formats == {None, Some("json"), Some("graphml")}
Exts == {".json", ".graphml"}

\* relationship references, one of them with a preference
PersistRelated ==
    RelatedVals \cup {Related("urn:uuid:p2", <<"friend", "met">>, None, Some(1))}

\* the attributes add_relationship gives an edge, graph.py:152-158
EdgeAttrs ==
    { [types |-> t, directional |-> d, metadata |-> m] :
        t \in {<<>>, <<"friend">>, <<"friend", "colleague">>},
        d \in BOOLEAN,
        m \in {EmptyDict, [k \in {"since"} |-> "2020"]} }

Populated(cs, edges) ==
    /\ contacts = cs
    /\ graph = [nodes |-> DOMAIN cs, edges |-> edges]

Plain(u) == Contact(Some(u), None, NoSimple, None, NoLists, <<>>, NoDicts)

\* graphs that add_contact and add_relationship build: one contact with a
\* populated field of each kind, or two contacts and edges between them
PersistGraphs ==
    \/ \E f \in simple_fields, v \in {Some(""), Some("A")}, r \in RevVals :
          Populated([u \in {"u1"} |->
                        Contact(Some("u1"), r,
                                Probe(simple_fields, f, v, None), None,
                                NoLists, <<>>, NoDicts)],
                    [e \in {} |-> EmptyDict])
    \/ \E f \in list_fields, la \in SeqUpTo(Items, MaxList), g \in GeoVals :
          Populated([u \in {"u1"} |->
                        Contact(Some("u1"), None, NoSimple, g,
                                Probe(list_fields, f, la, <<>>), <<>>,
                                NoDicts)],
                    [e \in {} |-> EmptyDict])
    \/ \E la \in SeqUpTo(PersistRelated, MaxRel) :
          Populated([u \in {"u1", "u2"} |->
                        IF u = "u1"
                            THEN Contact(Some("u1"), None, NoSimple, None,
                                         NoLists, la, NoDicts)
                            ELSE Plain(u)],
                    [e \in {} |-> EmptyDict])
    \/ \E f \in dict_fields, d \in Dicts :
          Populated([u \in {"u1"} |->
                        Contact(Some("u1"), None, NoSimple, None, NoLists,
                                <<>>, Probe(dict_fields, f, d, EmptyDict))],
                    [e \in {} |-> EmptyDict])
    \/ \E E \in SUBSET (Uids \X Uids) :
          /\ Cardinality(E) <= MaxEdges
          /\ \E edges \in [E -> EdgeAttrs] :
                Populated([u \in Uids |-> Plain(u)], edges)

InitPersist ==
    /\ PersistGraphs
    /\ last = [op |-> "none", arg |-> NoContact, ret |-> Returned(None)]
    /\ MergeIdle
    /\ PersistIdle
    /\ ServiceIdle

Save ==
    \E ext \in Exts, format \in Formats :
        save(ext, format) /\ UNCHANGED <<mergeVars, serviceVars>>

Load ==
    \E format \in Formats :
        load(format) /\ UNCHANGED <<mergeVars, serviceVars>>

NextPersist ==
    \/ Save
    \/ Load

SpecPersist == InitPersist /\ [][NextPersist]_vars

----------------------------------------------------------------------------
(* FilterPipeline, pipeline.py:12-70, and AbstractFilter, filter.py:22-81.  *)
(* A contact going through a pipeline is the sequence of the names of the   *)
(* filters that have processed it, after what it was when handed in; a      *)
(* filter that raises has not changed the contact it was given.             *)

MaxFilters == 3  \* most filters registered in a pipeline
MaxBatch == 2    \* longest list of contacts handed to run_batch

\* a filter: its name, its priority, the pipeline names its should_run
\* accepts and whether its execute raises
Filter(name, priority, runs_in, raises) ==
    [name |-> name, priority |-> priority, runs_in |-> runs_in,
     raises |-> raises]

PipelineNames == {"import", "export", "curation"}

\* UIDFilter (uid_filter.py: priority 10, should_run of the base class) and
\* GenderFilter (gender_filter.py: priority 50, import and curation only),
\* and two more filters of the same priorities, one of which raises
Filters ==
    { Filter("uid", 10, PipelineNames, FALSE),
      Filter("gender", 50, {"import", "curation"}, FALSE),
      Filter("audit", 10, {"export"}, FALSE),
      Filter("broken", 50, PipelineNames, TRUE) }

\* FilterContext, filter.py:13-19
FilterContext(pipeline_name) == [pipeline_name |-> pipeline_name]

\* filter.should_run(context), filter.py:62-72, gender_filter.py:102-114
should_run(f, context) == context.pipeline_name \in f.runs_in

\* filter.execute(contact, context), filter.py:48-60
execute(f, contact, context) ==
    IF f.raises THEN Raised("Exception")
                ELSE Returned(Append(contact, f.name))

\* x put into the priority-sorted s behind every filter of a priority not
\* greater than its own
insert_by_priority(s, x) ==
    LET k == Cardinality({i \in 1..Len(s) : s[i].priority <= x.priority})
    IN SubSeq(s, 1, k) \o <<x>> \o SubSeq(s, k + 1, Len(s))

\* self.filters.sort(key=lambda f: f.priority), pipeline.py:35: list.sort
\* is stable
RECURSIVE sort_by_priority(_)
sort_by_priority(s) ==
    IF s = <<>> THEN <<>>
    ELSE insert_by_priority(sort_by_priority(SubSeq(s, 1, Len(s) - 1)),
                            s[Len(s)])

\* mutant: the filter is appended and the list is left unsorted
register_append_only(filter) ==
    /\ pipeline' = [pipeline EXCEPT !.filters = Append(@, filter)]
    /\ Called("register", filter, Returned(None))

\* FilterPipeline.register, pipeline.py:26-36
register(filter) ==
    /\ pipeline' = [pipeline EXCEPT
                        !.filters = sort_by_priority(Append(@, filter))]
    /\ Called("register", filter, Returned(None))

\* mutant: the error of a filter ends the run with the contact as it is
RECURSIVE run_filters_abort(_, _, _)
run_filters_abort(fs, contact, context) ==
    IF fs = <<>> THEN [contact |-> contact, handled |-> <<>>]
    ELSE IF ~should_run(Head(fs), context)
        THEN run_filters_abort(Tail(fs), contact, context)
    ELSE IF execute(Head(fs), contact, context).raises = None
        THEN run_filters_abort(Tail(fs),
                               execute(Head(fs), contact, context).value,
                               context)
    ELSE [contact |-> contact,
          handled |-> <<[filter |-> Head(fs).name, contact |-> contact]>>]

\* the loop of FilterPipeline.run, pipeline.py:49-56: the contact returned
\* and the on_error calls made, [filter, contact] each
RECURSIVE run_filters(_, _, _)
run_filters(fs, contact, context) ==
    IF fs = <<>> THEN [contact |-> contact, handled |-> <<>>]
    ELSE IF ~should_run(Head(fs), context)
        THEN run_filters(Tail(fs), contact, context)
    ELSE IF execute(Head(fs), contact, context).raises = None
        THEN run_filters(Tail(fs),
                         execute(Head(fs), contact, context).value, context)
    ELSE [contact |-> run_filters(Tail(fs), contact, context).contact,
          handled |->
              <<[filter |-> Head(fs).name, contact |-> contact]>>
              \o run_filters(Tail(fs), contact, context).handled]

\* FilterPipeline.run, pipeline.py:38-57
run(contact, context) ==
    /\ pipeline' =
          [pipeline EXCEPT
              !.handled = run_filters(pipeline.filters, contact,
                                      context).handled]
    /\ Called("run", [contact |-> contact, context |-> context],
              Returned(run_filters(pipeline.filters, contact,
                                   context).contact))

\* the on_error calls of run over cs, one contact after the other
RECURSIVE batch_handled(_, _, _)
batch_handled(fs, cs, context) ==
    IF cs = <<>> THEN <<>>
    ELSE run_filters(fs, Head(cs), context).handled
         \o batch_handled(fs, Tail(cs), context)

\* FilterPipeline.run_batch, pipeline.py:59-70
run_batch(cs, context) ==
    /\ pipeline' =
          [pipeline EXCEPT
              !.handled = batch_handled(pipeline.filters, cs, context)]
    /\ Called("run_batch", [contacts |-> cs, context |-> context],
              Returned([i \in 1..Len(cs) |->
                          run_filters(pipeline.filters, cs[i],
                                      context).contact]))

----------------------------------------------------------------------------
(* The pipeline specification: filters are registered in a new pipeline    *)
(* and contacts are run through it.                                        *)

\* the contacts handed to run: a new one and one processed before
Entities == {<<>>, <<"seen">>}

InitPipeline ==
    /\ StoreIdle
    /\ MergeIdle
    /\ PersistIdle
    /\ ServiceIdle

Register ==
    /\ Len(pipeline.filters) < MaxFilters
    /\ \E filter \in Filters : register(filter)
    /\ UNCHANGED <<mergeVars, contacts, graph, persistVars, folders>>

Run ==
    /\ \E contact \in Entities, n \in PipelineNames :
          run(contact, FilterContext(n))
    /\ UNCHANGED <<mergeVars, contacts, graph, persistVars, folders>>

RunBatch ==
    /\ \E cs \in SeqUpTo(Entities, MaxBatch), n \in PipelineNames :
          run_batch(cs, FilterContext(n))
    /\ UNCHANGED <<mergeVars, contacts, graph, persistVars, folders>>

NextPipeline ==
    \/ Register
    \/ Run
    \/ RunBatch

SpecPipeline == InitPipeline /\ [][NextPipeline]_vars

----------------------------------------------------------------------------
(* The vCard and Markdown adapters (serializers/vcard.py,                   *)
(* serializers/markdown.py) and the consistency service                     *)
(* (services/consistency.py).  The text of a contact file is the record of  *)
(* what the adapter writes into it: the display name, the id and the        *)
(* revision (both only when truthy, the revision as ISO 8601 text), the     *)
(* note as the one optional property followed here, and whether the body    *)
(* has wiki-links in a Related section without RELATED in the front         *)
(* matter.  A file is named by its stem; the extension is that of the       *)
(* folder's format.                                                         *)

FileText(kind, fn, uid, rev, note, links) ==
    [kind |-> kind, fn |-> fn, uid |-> uid, rev |-> rev, note |-> note,
     links |-> links]

\* the properties to_vcard and _contact_to_dict write under `if contact.x:`
written_text(kind, c) ==
    FileText(kind, c.fn,
             IF Truthy(c.uid) THEN c.uid ELSE None,
             IF c.rev # None THEN Some(isoformat(c.rev[1])) ELSE None,
             IF Truthy(c.simple["note"]) THEN c.simple["note"] ELSE None,
             FALSE)

\* vcard.to_vcard, vcard.py:13-137
to_vcard(c) == written_text("vcard", c)

\* markdown.to_markdown, markdown.py:15-39; the front matter is
\* _contact_to_dict, yaml_serializer.py:71-156
to_markdown(c) == written_text("markdown", c)

\* the contact from_vcard and _dict_to_contact build from a parsed text:
\* Contact(fn=fn) raises ValueError for an empty name, a revision that
\* does not parse is left out
parsed_contact(t) ==
    IF t.fn = "" THEN Raised("ValueError")
    ELSE Returned([Contact(t.uid,
                           IF t.rev # None THEN load_rev(t.rev[1]) ELSE None,
                           Probe(simple_fields, "note", t.note, None),
                           None, NoLists, <<>>, NoDicts)
                   EXCEPT !.fn = t.fn])

\* vcard.from_vcard, vcard.py:140-299
from_vcard(t) ==
    IF t.kind # "vcard" THEN Raised("ParseError") ELSE parsed_contact(t)

\* markdown.from_markdown, markdown.py:42-75: a text without front matter
\* gives the empty dict, so Contact(fn='') raises
from_markdown(t) ==
    IF t.kind # "markdown" THEN Raised("ValueError") ELSE parsed_contact(t)

\* vcard.py:374, markdown.py:440: the file is named after the display name
\* ('/' and '\' replaced; the names drawn here hold neither)
filename(c) == c.fn

\* the orders a folder's files or the store's contacts can be walked in
Orders(S) == {s \in [1..Cardinality(S) -> S] : Range(s) = S}

\* the loop of vcard.bulk_import, vcard.py:351-356: a file that fails to
\* parse is skipped
RECURSIVE import_vcards(_, _)
import_vcards(files, order) ==
    IF order = <<>> THEN <<>>
    ELSE (IF from_vcard(files[Head(order)]).raises = None
            THEN <<from_vcard(files[Head(order)]).value>> ELSE <<>>)
         \o import_vcards(files, Tail(order))

\* vcard.bulk_import, vcard.py:335-358; order is the order of folder.glob
bulk_import(folder, order) ==
    IF folder = None THEN <<>> ELSE import_vcards(folder[1], order)

\* the loop of markdown.bulk_import_markdown, markdown.py:353-361
RECURSIVE import_markdowns(_, _)
import_markdowns(files, order) ==
    IF order = <<>> THEN <<>>
    ELSE (IF from_markdown(files[Head(order)]).raises = None
            THEN <<from_markdown(files[Head(order)]).value>> ELSE <<>>)
         \o import_markdowns(files, Tail(order))

\* markdown.bulk_import_markdown, markdown.py:337-363
bulk_import_markdown(folder, order) ==
    IF folder = None THEN <<>> ELSE import_markdowns(folder[1], order)

NoFiles == [n \in {} |-> FileText("vcard", "", None, None, None, FALSE)]

\* export_vcard, vcard.py:318-332, for each contact in turn
RECURSIVE export_vcards(_, _)
export_vcards(files, cs) ==
    IF cs = <<>> THEN files
    ELSE export_vcards(Put(files, filename(Head(cs)), to_vcard(Head(cs))),
                       Tail(cs))

\* vcard.bulk_export(contacts, folder_path), vcard.py:361-377: every
\* contact is written, nothing is returned.  force is the keyword argument
\* of the call, None when it is not passed: the function has no such
\* parameter, so a call that passes it raises TypeError before anything is
\* written
bulk_export(cs, folder, force) ==
    IF force # None
        THEN [folder |-> folder, ret |-> Raised("TypeError")]
        ELSE [folder |-> Some(export_vcards(IF folder = None THEN NoFiles
                                                              ELSE folder[1],
                                            cs)),
              ret |-> Returned(None)]

\* markdown.should_export_markdown, markdown.py:366-416
should_export_markdown(c, files) ==
    IF filename(c) \notin DOMAIN files THEN TRUE
    ELSE IF from_markdown(files[filename(c)]).raises # None THEN TRUE
    ELSE IF compare_rev(c, from_markdown(files[filename(c)]).value) > 0
        THEN TRUE
    ELSE IF compare_rev(c, from_markdown(files[filename(c)]).value) < 0
        THEN FALSE
    ELSE to_markdown(c) # files[filename(c)]

\* the loop of bulk_export_markdown, markdown.py:438-451; acc is
\* [files, written, skipped]
RECURSIVE export_markdowns(_, _, _)
export_markdowns(acc, cs, force) ==
    IF cs = <<>> THEN acc
    ELSE IF force \/ should_export_markdown(Head(cs), acc.files)
        THEN export_markdowns(
                [files |-> Put(acc.files, filename(Head(cs)),
                               to_markdown(Head(cs))),
                 written |-> acc.written + 1, skipped |-> acc.skipped],
                Tail(cs), force)
        ELSE export_markdowns([acc EXCEPT !.skipped = @ + 1], Tail(cs), force)

\* markdown.bulk_export_markdown, markdown.py:419-453
bulk_export_markdown(cs, folder, force) ==
    LET acc == export_markdowns(
                  [files |-> IF folder = None THEN NoFiles ELSE folder[1],
                   written |-> 0, skipped |-> 0], cs, force)
    IN [folder |-> Some(acc.files),
        ret |-> Returned(<<acc.written, acc.skipped>>)]

\* consistency.py:16-25; details is the text shown to the user
Inconsistency(type, source, target, severity) ==
    [type |-> type, source |-> source, target |-> target,
     severity |-> severity]

\* {c.uid: c for c in contacts if c.uid}, consistency.py:114, 116, 193, 195:
\* a later contact replaces an earlier one with the same id
RECURSIVE by_uid(_)
by_uid(cs) ==
    IF cs = <<>> THEN [u \in {} |-> NoContact]
    ELSE LET c == cs[Len(cs)]
             m == by_uid(SubSeq(cs, 1, Len(cs) - 1))
         IN IF Truthy(c.uid) THEN Put(m, c.uid[1], c) ELSE m

\* graph_by_uid of the stored contacts, consistency.py:115-116
graph_by_uid(cs) ==
    [u \in {cs[k].uid[1] : k \in {x \in DOMAIN cs : Truthy(cs[x].uid)}} |->
        cs[CHOOSE k \in DOMAIN cs : cs[k].uid = Some(u)]]

\* the ids of a set, one after the other
RECURSIVE Listed(_)
Listed(S) ==
    IF S = {} THEN <<>>
    ELSE LET x == CHOOSE x \in S : TRUE IN <<x>> \o Listed(S \ {x})

\* one warning of a type per id of S
warnings(type, source, S) ==
    [i \in 1..Cardinality(S) |->
        Inconsistency(type, source, Some(Listed(S)[i]), "warning")]

\* mutant: a revision absent in the folder counts as different
outdated_or_absent(g, f) ==
    {u \in DOMAIN g \cap DOMAIN f : g[u].rev # None /\ g[u].rev # f[u].rev}

\* consistency.py:141-153 and 220-232: a datetime is always truthy
outdated(g, f) ==
    {u \in DOMAIN g \cap DOMAIN f :
        g[u].rev # None /\ f[u].rev # None /\ g[u].rev # f[u].rev}

\* the three loops of consistency.py:118-153 and 197-232 over the two maps
compare_maps(source, g, f) ==
    warnings("missing", source, DOMAIN g \ DOMAIN f)
    \o warnings("orphaned", source, DOMAIN f \ DOMAIN g)
    \o warnings("outdated", source, outdated(g, f))

\* ConsistencyService.check_graph_vcf_consistency, consistency.py:78-155;
\* bulk_import catches the errors of its files itself
check_graph_vcf_consistency(cs, folder, order) ==
    IF folder = None
        THEN <<Inconsistency("missing", "vcf_folder", None, "error")>>
        ELSE compare_maps("vcf_folder", graph_by_uid(cs),
                          by_uid(bulk_import(folder, order)))

\* ConsistencyService.check_graph_markdown_consistency,
\* consistency.py:157-234
check_graph_markdown_consistency(cs, folder, order) ==
    IF folder = None
        THEN <<Inconsistency("missing", "markdown_folder", None, "error")>>
        ELSE compare_maps("markdown_folder", graph_by_uid(cs),
                          by_uid(bulk_import_markdown(folder, order)))

\* the loop of check_front_matter_content_consistency,
\* consistency.py:259-313: a file that does not parse is an error, one
\* with wiki-links in its Related section and no RELATED in the front
\* matter is an 'inconsistent' of severity info
RECURSIVE front_matter_files(_, _)
front_matter_files(files, order) ==
    IF order = <<>> THEN <<>>
    ELSE (IF from_markdown(files[Head(order)]).raises # None
            THEN <<Inconsistency("error", "markdown_file",
                                 Some(Head(order)), "error")>>
          ELSE IF files[Head(order)].links
            THEN <<Inconsistency("inconsistent", "markdown_file",
                                 Some(Head(order)), "info")>>
          ELSE <<>>)
         \o front_matter_files(files, Tail(order))

\* ConsistencyService.check_front_matter_content_consistency,
\* consistency.py:236-315
check_front_matter_content_consistency(folder, order) ==
    IF folder = None
        THEN <<Inconsistency("missing", "markdown_folder", None, "error")>>
        ELSE front_matter_files(folder[1], order)

\* len(list(path.glob(...))) when the folder exists, consistency.py:346-367
count_files(folder) ==
    IF folder = None THEN 0 ELSE Cardinality(DOMAIN folder[1])

\* ConsistencyService.check_all_representations, consistency.py:317-370:
\* given says which folders are passed, fs is what is on disk for each;
\* the YAML folder is only counted (consistency.py:363-368)
check_all_representations(cs, fs, given, orders) ==
    [inconsistencies |->
        (IF given.vcf
            THEN check_graph_vcf_consistency(cs, fs.vcf, orders.vcf)
            ELSE <<>>)
        \o (IF given.markdown
              THEN check_graph_markdown_consistency(cs, fs.markdown,
                                                    orders.markdown)
                   \o check_front_matter_content_consistency(
                         fs.markdown, orders.markdown)
              ELSE <<>>),
     total_contacts_graph |-> Cardinality(DOMAIN cs),
     total_files_vcf |-> IF given.vcf THEN count_files(fs.vcf) ELSE 0,
     total_files_markdown |->
        IF given.markdown THEN count_files(fs.markdown) ELSE 0,
     total_files_yaml |-> IF given.yaml THEN count_files(fs.yaml) ELSE 0]

\* mutant: entries of severity info do not count
is_consistent_ignoring_info(report) ==
    \A i \in 1..Len(report.inconsistencies) :
        report.inconsistencies[i].severity = "info"

\* ConsistencyReport.is_consistent, consistency.py:44-47
is_consistent(report) == Len(report.inconsistencies) = 0

\* cli.py:556-558
exit_code(report) == IF ~is_consistent(report) THEN 1 ELSE 0

\* cli.check_consistency, cli.py:496-558: the exit code and the report, if
\* one was built.  loads says whether graph.load succeeded; cs is the
\* graph it loaded
check_consistency(cs, fs, given, orders, loads) ==
    IF ~(given.vcf \/ given.markdown \/ given.yaml)
        THEN [exit |-> 1, report |-> None]
    ELSE IF ~loads THEN [exit |-> 1, report |-> None]
    ELSE [exit |-> exit_code(check_all_representations(cs, fs, given,
                                                       orders)),
          report |-> Some(check_all_representations(cs, fs, given, orders))]

----------------------------------------------------------------------------
(* The folder specification: contacts are stored and removed, the store is  *)
(* exported into a folder, files appear in it from outside, and the        *)
(* folders are checked against the store.  A behaviour exports into one    *)
(* folder, of either format.  The report specification: folders and files  *)
(* appear from outside and the store is checked against the folders given. *)

\* the contacts stored here: u1 is always Ann, with or without a note, u2
\* is Ann or Bob
FolderEntries ==
    { [Contact(Some("u1"), p[1], Probe(simple_fields, "note", p[2], None),
               None, NoLists, <<>>, NoDicts) EXCEPT !.fn = "Ann"] :
        p \in (RevVals \X {None}) \cup {<<Some(1), Some("A")>>} }
    \cup
    { [Plain("u2") EXCEPT !.fn = f] : f \in {"Ann", "Bob"} }

\* files that were not exported from the store: one without id (in
\* Markdown with wiki-links and no RELATED in its front matter), and a
\* Markdown file without display name
ForeignTexts(kind) ==
    IF kind = "vcard"
        THEN { FileText(kind, "Zed", None, None, None, FALSE) }
        ELSE { FileText(kind, "Zed", None, None, None, TRUE),
               FileText(kind, "", None, None, None, FALSE) }

FolderFormats == {"vcf", "markdown", "yaml"}

Given == [FolderFormats -> BOOLEAN]

\* the orders check_all_representations can meet the files in
GlobOrders ==
    { [vcf |-> v, markdown |-> m] :
        v \in (IF folders.vcf = None THEN {<<>>}
                ELSE Orders(DOMAIN folders.vcf[1])),
        m \in (IF folders.markdown = None THEN {<<>>}
                ELSE Orders(DOMAIN folders.markdown[1])) }

\* graph.get_all_contacts() in one of the orders of the dict
AllContacts ==
    {[i \in DOMAIN o |-> contacts[o[i]]] : o \in Orders(DOMAIN contacts)}

InitFolders ==
    /\ contacts = [u \in {} |-> NoContact]
    /\ graph = [nodes |-> {}, edges |-> [e \in {} |-> EmptyDict]]
    /\ last = [op |-> "none", arg |-> NoContact, ret |-> Returned(None)]
    /\ MergeIdle
    /\ PersistIdle
    /\ ServiceIdle

StoreEntry ==
    \E c \in FolderEntries :
        add_contact(c) /\ UNCHANGED <<mergeVars, persistVars, serviceVars>>

DropEntry ==
    \E u \in Uids :
        remove_contact(u) /\ UNCHANGED <<mergeVars, persistVars, serviceVars>>

\* a folder is made from outside
MakeFolder ==
    \E f \in FolderFormats :
        /\ folders[f] = None
        /\ folders' = [folders EXCEPT ![f] = Some(NoFiles)]
        /\ Called("mkdir", f, Returned(None))
        /\ UNCHANGED <<mergeVars, contacts, graph, persistVars, pipeline>>

\* a file is put into a folder from outside
ForeignFile ==
    \E f \in {"vcf", "markdown"} :
        \E t \in ForeignTexts(IF f = "vcf" THEN "vcard" ELSE "markdown") :
            /\ folders[f] # None
            /\ folders' = [folders EXCEPT
                              ![f] = Some(Put(folders[f][1], "Zed", t))]
            /\ Called("write", <<f, t>>, Returned(None))
            /\ UNCHANGED <<mergeVars, contacts, graph, persistVars,
                           pipeline>>

BulkExport ==
    \E cs \in AllContacts, force \in Opt(BOOLEAN) :
        /\ folders.markdown = None
        /\ folders' = [folders EXCEPT
                          !.vcf = bulk_export(cs, folders.vcf, force).folder]
        /\ Called("bulk_export", [contacts |-> cs, force |-> force],
                  bulk_export(cs, folders.vcf, force).ret)
        /\ UNCHANGED <<mergeVars, contacts, graph, persistVars, pipeline>>

BulkExportMarkdown ==
    \E cs \in AllContacts, force \in BOOLEAN :
        /\ folders.vcf = None
        /\ folders' = [folders EXCEPT
                          !.markdown =
                              bulk_export_markdown(cs, folders.markdown,
                                                   force).folder]
        /\ Called("bulk_export_markdown",
                  [contacts |-> cs, force |-> Some(force)],
                  bulk_export_markdown(cs, folders.markdown, force).ret)
        /\ UNCHANGED <<mergeVars, contacts, graph, persistVars, pipeline>>

CheckGraphVcf ==
    \E o \in GlobOrders :
        /\ Called("check_graph_vcf_consistency", "vcf",
                  Returned(check_graph_vcf_consistency(contacts, folders.vcf,
                                                       o.vcf)))
        /\ UNCHANGED <<mergeVars, contacts, graph, persistVars, serviceVars>>

CheckGraphMarkdown ==
    \E o \in GlobOrders :
        /\ Called("check_graph_markdown_consistency", "markdown",
                  Returned(check_graph_markdown_consistency(
                              contacts, folders.markdown, o.markdown)))
        /\ UNCHANGED <<mergeVars, contacts, graph, persistVars, serviceVars>>

CheckAll ==
    \E given \in Given, o \in GlobOrders :
        /\ Called("check_all_representations", given,
                  Returned(check_all_representations(contacts, folders, given,
                                                     o)))
        /\ UNCHANGED <<mergeVars, contacts, graph, persistVars, serviceVars>>

CheckConsistency ==
    \E given \in Given, o \in GlobOrders, loads \in BOOLEAN :
        /\ Called("check_consistency", [given |-> given, loads |-> loads],
                  Returned(check_consistency(contacts, folders, given, o,
                                             loads)))
        /\ UNCHANGED <<mergeVars, contacts, graph, persistVars, serviceVars>>

NextFolders ==
    \/ StoreEntry
    \/ DropEntry
    \/ ForeignFile
    \/ BulkExport
    \/ BulkExportMarkdown
    \/ CheckGraphVcf
    \/ CheckGraphMarkdown

SpecFolders == InitFolders /\ [][NextFolders]_vars

NextReport ==
    \/ StoreEntry
    \/ DropEntry
    \/ MakeFolder
    \/ ForeignFile
    \/ CheckGraphVcf
    \/ CheckGraphMarkdown
    \/ CheckAll
    \/ CheckConsistency

SpecReport == InitFolders /\ [][NextReport]_vars

----------------------------------------------------------------------------
(* The import command, cli.import_contacts (cli.py:32-105), on a graph file *)
(* that another graph was saved to and that may have been edited since.    *)

MaxImported == 1   \* most contacts without id that imports give an id to

\* the ids UIDFilter draws, uid_filter.py: a uuid4 is one not in use
FreshNames == <<"n1", "n2", "n3">>
FreshUids == {FreshNames[i] : i \in 1..MaxImported}

\* ContactGraph.merge_contact (graph.py:61-102) as a function of the graph
\* st = [contacts, graph] it is called on; the contact has an id
merged_graph(st, c) ==
    IF c.uid[1] \notin DOMAIN st.contacts
        THEN [contacts |-> Put(st.contacts, c.uid[1], c),
              graph |-> add_node(st.graph, c.uid[1])]
    ELSE IF skip_incoming(st.contacts[c.uid[1]], c) THEN st
    ELSE [st EXCEPT !.contacts =
            Put(st.contacts, c.uid[1],
                merge_from(st.contacts[c.uid[1]], c, TRUE))]

\* import_pipeline.run(contact, FilterContext("import")) for a contact
\* without id, cli.py:15-16 and 80-84: UIDFilter gives it an id that is
\* not in use; GenderFilter finds no relationship to infer a gender from
import_pipeline_run(st, c) ==
    [c EXCEPT !.uid =
        Some(CHOOSE u \in FreshUids : u \notin DOMAIN st.contacts)]

\* the loop of cli.py:79-94 over the imported contacts
RECURSIVE merge_all(_, _)
merge_all(st, cs) ==
    IF cs = <<>> THEN st
    ELSE merge_all(merged_graph(st, IF ~Truthy(Head(cs).uid)
                                        THEN import_pipeline_run(st, Head(cs))
                                        ELSE Head(cs)),
                   Tail(cs))

\* ContactGraph.save (graph.py:216-241) as a function of the graph saved
saved_file(st, ext, format) ==
    Some([ext |-> ext,
          content |-> IF resolve_format(ext, format) = "json"
                        THEN save_json(st.contacts, st.graph)
                        ELSE save_graphml(st.contacts, st.graph)])

\* cli.py:53-63: the folder read and the contacts read from it, order the
\* order its files are met in; 'yaml' falls back to the vCard adapter
imported_folder(format, fs) ==
    IF format = "markdown" THEN fs.markdown ELSE fs.vcf
imported_contacts(format, fs, order) ==
    IF format = "markdown"
        THEN bulk_import_markdown(fs.markdown, order)
        ELSE bulk_import(fs.vcf, order)

\* cli.import_contacts, cli.py:32-105, with the graph file at a path of
\* extension ext: the existing file is loaded into a new graph (an error of
\* load is only reported), the contacts are merged in and the graph is saved
import_contacts(format, graph_format, ext, order) ==
    \E o \in load_outcomes(NewGraph, file, graph_format) :
        LET st == IF file = None THEN NewGraph ELSE o.store
            cs == imported_contacts(format, folders, order)
        IN /\ Cardinality({i \in DOMAIN cs : ~Truthy(cs[i].uid)})
                <= Cardinality(FreshUids \ DOMAIN st.contacts)
           /\ file' = saved_file(merge_all(st, cs), ext, graph_format)
           /\ Called("import_contacts",
                     [graph_format |-> graph_format,
                      loaded |-> file # None /\ o.ret.raises = None],
                     Returned(None))
           /\ UNCHANGED <<contacts, graph, loaded>>

\* the contacts found in the imported folder: a newer version of u1 with a
\* note, and a contact without id
FolderLists ==
    LET ann == [Contact(Some("u1"), Some(MaxRev),
                        Probe(simple_fields, "note", Some("A"), None), None,
                        NoLists, <<>>, NoDicts) EXCEPT !.fn = "Ann"]
        zed == [NoContact EXCEPT !.fn = "Zed"]
    IN {<<>>, <<ann>>, <<ann, zed>>}

\* the graph saved to the file before the import: u1 with a title and an
\* e-mail address, u2, and an edge between them or none
ImportGraphs ==
    \E E \in SUBSET {<<"u1", "u2">>} :
        Populated([u \in Uids |->
                      IF u = "u1"
                          THEN Contact(Some("u1"), Some(1),
                                       Probe(simple_fields, "title", Some("A"),
                                             None),
                                       None,
                                       Probe(list_fields, "email", <<"x">>,
                                             <<>>),
                                       <<>>, NoDicts)
                          ELSE Plain(u)],
                  [e \in E |-> [types |-> <<"friend">>, directional |-> TRUE,
                                metadata |-> EmptyDict]])

InitImport ==
    /\ ImportGraphs
    /\ last = [op |-> "none", arg |-> NoContact, ret |-> Returned(None)]
    /\ MergeIdle
    /\ PersistIdle
    /\ pipeline = NewPipeline
    /\ \E cs \in FolderLists :
          folders = [vcf |-> Some(export_vcards(NoFiles, cs)),
                     markdown |->
                        Some(export_markdowns([files |-> NoFiles,
                                               written |-> 0, skipped |-> 0],
                                              cs, TRUE).files),
                     yaml |-> None]

\* the graph file is edited from outside: a node loses its display name
EditFile ==
    \E u \in Uids :
        /\ file # None
        /\ u \in DOMAIN file[1].content.nodes
        /\ valid_node(file[1].content.nodes[u])
        /\ file' = Some([file[1] EXCEPT
                            !.content.nodes[u] = Del(@, "fn")])
        /\ Called("edit", u, Returned(None))
        /\ UNCHANGED <<mergeVars, contacts, graph, loaded, serviceVars>>

ImportContacts ==
    \E format \in {"vcard", "yaml", "markdown"}, graph_format \in Formats,
       ext \in Exts :
        \E order \in Orders(DOMAIN imported_folder(format, folders)[1]) :
            /\ file # None => ext = file[1].ext
            /\ import_contacts(format, graph_format, ext, order)
            /\ UNCHANGED <<mergeVars, serviceVars>>

NextImport ==
    \/ Save
    \/ Load
    \/ EditFile
    \/ ImportContacts

SpecImport == InitImport /\ [][NextImport]_vars

----------------------------------------------------------------------------
(* Properties *)

Done == pc = "done"

\* an absent revision is the minimum
RevOrMin(r) == IF r = None THEN 0 ELSE r[1]
Max(x, y) == IF x >= y THEN x ELSE y

\* what the claims call other_is_newer, from the two revisions alone
StrictlyOlder(a, b) == RevOrMin(a.rev) < RevOrMin(b.rev)
OtherWins == prefer_newer /\ StrictlyOlder(before.self, before.other)

NoDup(s) == \A i, j \in 1..Len(s) : s[i] = s[j] => i = j

\* the entries of s at the positions I, in the order of s
KthOf(I, k) == CHOOSE i \in I : Cardinality({j \in I : j <= i}) = k
Pick(s, I) == [k \in 1..Cardinality(I) |-> s[KthOf(I, k)]]

(* merge_contact, over the behaviours of Spec *)

\* the step is a merge_contact call that did not raise
MergeStep == last'.op = "merge_contact" /\ last'.ret.raises = None

\* C1: for a store holding an entity with the incoming id whose revision is
\* strictly newer than the incoming one (an absent incoming revision being
\* older than any present one), merge_contact returns (False, "skipped") and
\* leaves every stored entity and every edge as before the call.
C1_SkipLeavesStore ==
    [][ (/\ MergeStep
         /\ last'.arg.uid[1] \in DOMAIN contacts
         /\ StrictlyOlder(last'.arg, contacts[last'.arg.uid[1]]))
        => /\ last'.ret = Returned(<<FALSE, "skipped">>)
           /\ contacts' = contacts
           /\ graph' = graph ]_vars

C1_Witness ==
    /\ last.op = "merge_contact"
    /\ last.ret = Returned(<<FALSE, "skipped">>)
    /\ last.arg.rev = None
    /\ last.arg.simple["title"] = Some("B")
    /\ "u1" \in DOMAIN contacts
    /\ contacts["u1"].rev = Some(1)
    /\ contacts["u1"].simple["title"] = Some("A")
    /\ <<"u1", "u2">> \in DOMAIN graph.edges

\* C2: merge_contact returns (True, "added") and stores the incoming entity
\* when its id is not in the store; when the id is stored and the stored
\* revision is not strictly newer (equal revisions and two absent revisions
\* included) it merges the incoming entity into the stored one with
\* prefer_newer = true, keeps the result under the same id and returns
\* (True, "updated").
C2_AddedOrUpdated ==
    [][ MergeStep =>
          LET c == last'.arg
              u == c.uid[1]
          IN /\ u \notin DOMAIN contacts =>
                  /\ last'.ret = Returned(<<TRUE, "added">>)
                  /\ DOMAIN contacts' = DOMAIN contacts \cup {u}
                  /\ contacts'[u] = c
                  /\ \A v \in DOMAIN contacts : contacts'[v] = contacts[v]
             /\ (u \in DOMAIN contacts /\ ~StrictlyOlder(c, contacts[u])) =>
                  /\ last'.ret = Returned(<<TRUE, "updated">>)
                  /\ DOMAIN contacts' = DOMAIN contacts
                  /\ contacts'[u] = merge_from(contacts[u], c, TRUE)
                  /\ contacts'[u].rev = c.rev
                  /\ \A v \in DOMAIN contacts \ {u} :
                        contacts'[v] = contacts[v] ]_vars

C2_Witness ==
    /\ last.op = "merge_contact"
    /\ last.ret = Returned(<<TRUE, "updated">>)
    /\ last.arg.rev = Some(1)
    /\ last.arg.lists["email"] = <<"y">>
    /\ "u1" \in DOMAIN contacts
    /\ contacts["u1"].rev = Some(1)
    /\ contacts["u1"].simple["title"] = Some("A")
    /\ contacts["u1"].lists["email"] = <<"x", "y">>

(* merge_from, over the behaviours of SpecMerge *)

\* C3: after a.merge_from(b, prefer_newer), for either prefer_newer, a's
\* revision is the maximum of a's prior revision and b's revision, an absent
\* revision being the minimum; it is absent only if both were absent, and it
\* is never lower than a's prior revision.
C3_RevisionIsMax ==
    Done =>
        /\ RevOrMin(self.rev) =
              Max(RevOrMin(before.self.rev), RevOrMin(before.other.rev))
        /\ (self.rev = None) <=>
              (before.self.rev = None /\ before.other.rev = None)
        /\ RevOrMin(self.rev) >= RevOrMin(before.self.rev)

C3_Witness ==
    /\ Done
    /\ ~prefer_newer
    /\ before.self.rev = Some(2)
    /\ before.other.rev = Some(1)
    /\ self.rev = Some(2)

\* a scalar value that is present and not the empty string
NonEmptyScalar(v) == v # None /\ v # Some("")

\* C4: every scalar field, collection field and extension-map key that had a
\* (non-empty) value in a before a.merge_from(b) still has a non-empty value
\* afterwards, whatever b contains and for either prefer_newer.
C4_NeverEmptied ==
    Done =>
        /\ \A f \in simple_fields :
              NonEmptyScalar(before.self.simple[f]) =>
                  NonEmptyScalar(self.simple[f])
        /\ before.self.geo # None => self.geo # None
        /\ \A f \in list_fields :
              before.self.lists[f] # <<>> => self.lists[f] # <<>>
        /\ before.self.related # <<>> => self.related # <<>>
        /\ \A f \in dict_fields : \A k \in DOMAIN before.self.dicts[f] :
              before.self.dicts[f][k] # "" =>
                  k \in DOMAIN self.dicts[f] /\ self.dicts[f][k] # ""

\* C5: for each scalar optional field and the geo pair: a value a lacked is
\* taken from b; where both had one, b's is taken exactly when prefer_newer
\* holds and a's revision is strictly older than b's; otherwise a's is kept.
C5_Cases(a, b, r) ==
    /\ (a = None /\ b # None) => r = b
    /\ (a # None /\ b # None) => r = (IF OtherWins THEN b ELSE a)
    /\ b = None => r = a

NovelItems(a, b) ==
    {i \in 1..Len(b) : b[i] \notin Range(a) /\ \A j \in 1..(i-1) : b[j] # b[i]}

C7_NoDuplicates ==
    Done => \A f \in list_fields : NoDup(self.lists[f])

\* the positions of b whose uri is neither in a nor earlier in b
NovelUris(a, b) ==
    {i \in 1..Len(b) :
        /\ \A j \in 1..Len(a) : a[j].uri # b[i].uri
        /\ \A j \in 1..(i-1) : b[j].uri # b[i].uri}

\* C8: after a.merge_from(b) a's relationship list is a's original entries,
\* unchanged and in order, followed by each entry of b whose uri occurs
\* neither among a's entries nor among the entries of b before it; an entry
\* of b whose uri is present is dropped whole (the existing entry keeps its
\* own type labels).  The uri compared is the entry's uri field, which is
\* the empty string for a text-only entry.
C8_RelatedByUri ==
    Done =>
        LET a == before.self.related
            b == before.other.related
        IN self.related = a \o Pick(b, NovelUris(a, b))

C8_Witness ==
    /\ Done
    /\ before.self.related = <<Related("urn:uuid:p1", <<"friend">>, None, None)>>
    /\ before.other.related =
          <<Related("urn:uuid:p1", <<"colleague">>, None, None),
            Related("urn:uuid:p2", <<"friend">>, None, None)>>
    /\ self.related =
          <<Related("urn:uuid:p1", <<"friend">>, None, None),
            Related("urn:uuid:p2", <<"friend">>, None, None)>>

\* the entries of a relationship list that lack a target uri
TextOnly(s) == {i \in 1..Len(s) : s[i].uri = ""}

\* C9: entries that lack a target uri are never treated as duplicates of one
\* another: every uri-less entry of b is appended to a's relationship list,
\* also when a or b already holds another uri-less entry.
C9_TextOnlyAllAppended ==
    Done =>
        Cardinality(TextOnly(self.related)) =
            Cardinality(TextOnly(before.self.related))
                + Cardinality(TextOnly(before.other.related))

\* C10: for both extension maps the key set after a.merge_from(b) is the
\* union of a's and b's keys; a key only in b carries b's value; a key in
\* both carries b's value exactly when prefer_newer holds and a's revision
\* is strictly older than b's, and a's value otherwise.
C10_DictUnion ==
    Done =>
        \A f \in dict_fields :
            LET a == before.self.dicts[f]
                b == before.other.dicts[f]
                r == self.dicts[f]
            IN /\ DOMAIN r = DOMAIN a \cup DOMAIN b
               /\ \A k \in DOMAIN b \ DOMAIN a : r[k] = b[k]
               /\ \A k \in DOMAIN a \ DOMAIN b : r[k] = a[k]
               /\ \A k \in DOMAIN a \cap DOMAIN b :
                     r[k] = (IF OtherWins THEN b[k] ELSE a[k])

C10_Witness ==
    /\ Done
    /\ prefer_newer
    /\ before.self.rev = None
    /\ before.other.rev = Some(1)
    /\ before.self.dicts["x_properties"] = [k \in {"k1"} |-> "v1"]
    /\ before.other.dicts["x_properties"] = [k \in {"k1", "k2"} |-> "v2"]
    /\ self.dicts["x_properties"] = [k \in {"k1", "k2"} |-> "v2"]

C12_MergeCopyIsIdentity ==
    (Done /\ before.other = before.self) => self = before.self

C12_Witness ==
    /\ Done
    /\ before.other = before.self
    /\ before.self.rev = Some(1)
    /\ Len(before.self.related) = 2
    /\ before.self.related[1].uri = ""
    /\ before.self.related[2].uri = "urn:uuid:p1"
    /\ self = before.self

(* the store operations, over the behaviours of Spec *)

\* s is a subsequence of t: the elements of s, in the order of s
Subsequence(s, t) == \E I \in SUBSET (1..Len(t)) : Pick(t, I) = s

\* C13: over any sequence of merge_contact calls an id once stored stays
\* stored, and for each stored id every collection field keeps all earlier
\* elements in their earlier order, a scalar field that has a value never
\* becomes empty, and the stored revision never decreases.
C13_MergeMonotonic ==
    [][ last'.op = "merge_contact" =>
          /\ DOMAIN contacts \subseteq DOMAIN contacts'
          /\ \A u \in DOMAIN contacts :
                /\ \A f \in list_fields :
                      Subsequence(contacts[u].lists[f], contacts'[u].lists[f])
                /\ Subsequence(contacts[u].related, contacts'[u].related)
                /\ \A f \in simple_fields :
                      NonEmptyScalar(contacts[u].simple[f]) =>
                          NonEmptyScalar(contacts'[u].simple[f])
                /\ contacts[u].geo # None => contacts'[u].geo # None
                /\ RevOrMin(contacts'[u].rev) >= RevOrMin(contacts[u].rev)
      ]_vars

\* the id of c is missing or the empty string
EmptyId(c) == c.uid = None \/ c.uid = Some("")

\* the step is a call of op with a contact whose id is stored
CallOnStored(op) ==
    /\ last'.op = op
    /\ ~EmptyId(last'.arg)
    /\ last'.arg.uid[1] \in DOMAIN contacts

Rejected ==
    /\ last'.ret.raises # None
    /\ contacts' = contacts
    /\ graph' = graph

\* C14: add_contact with an id that is already in the store fails with an
\* explicit duplicate-entity error instead of silently overwriting: the
\* stored entity is the same after the call as before it.
C14_DuplicateAddFails ==
    [][ CallOnStored("add_contact") =>
          /\ last'.ret.raises # None
          /\ contacts' = contacts ]_vars

\* C15: add_contact, update_contact and merge_contact with an empty id, and
\* update_contact with an id that is not in the store, raise and leave the
\* stored entities and the edges unchanged; hence every entity in the store
\* has a non-empty id.
C15_EmptyOrUnknownIdRejected ==
    [][ /\ ( /\ last'.op \in {"add_contact", "update_contact",
                              "merge_contact"}
             /\ EmptyId(last'.arg) ) => Rejected
        /\ ( /\ last'.op = "update_contact"
             /\ ~EmptyId(last'.arg)
             /\ last'.arg.uid[1] \notin DOMAIN contacts ) => Rejected
        /\ \A u \in DOMAIN contacts' :
              u # "" /\ contacts'[u].uid = Some(u) ]_vars

C15_Witness ==
    /\ last.op = "add_contact"
    /\ last.arg.uid = Some("")
    /\ last.ret = Raised("ValueError")
    /\ DOMAIN contacts = {"u1", "u2"}
    /\ contacts["u1"].simple["title"] = Some("A")
    /\ DOMAIN graph.edges = {<<"u1", "u2">>}

\* C16: update_contact for an id that is in the store replaces the stored
\* entity with exactly the given one (no merge) and leaves every other
\* entity and every edge, the edges into and out of that id included,
\* unchanged.
C16_UpdateReplaces ==
    [][ CallOnStored("update_contact") =>
          LET u == last'.arg.uid[1]
          IN /\ last'.ret = Returned(None)
             /\ DOMAIN contacts' = DOMAIN contacts
             /\ contacts'[u] = last'.arg
             /\ \A v \in DOMAIN contacts \ {u} : contacts'[v] = contacts[v]
             /\ graph' = graph ]_vars

C16_Witness ==
    /\ last.op = "update_contact"
    /\ last.ret = Returned(None)
    /\ last.arg.uid = Some("u1")
    /\ last.arg.rev = None
    /\ last.arg.simple["title"] = None
    /\ last.arg.lists["email"] = <<>>
    /\ DOMAIN contacts = {"u1", "u2"}
    /\ contacts["u1"] = last.arg
    /\ contacts["u2"].rev = Some(1)
    /\ DOMAIN graph.edges = {<<"u1", "u2">>, <<"u2", "u1">>, <<"u1", "u1">>}

\* both contacts of the relationship are in the store
BothStored(rel) ==
    /\ rel.source # None
    /\ rel.target # None
    /\ rel.source[1] \in DOMAIN contacts
    /\ rel.target[1] \in DOMAIN contacts

\* C17: in every state reachable through add_contact, update_contact,
\* merge_contact, remove_contact and add_relationship both endpoints of
\* every edge are ids of stored entities; add_relationship raises and adds
\* nothing unless both endpoints are stored; remove_contact removes the
\* entity together with every edge into or out of it.
C17_EdgesBetweenStored ==
    [][ /\ \A e \in DOMAIN graph'.edges :
              e[1] \in DOMAIN contacts' /\ e[2] \in DOMAIN contacts'
        /\ (last'.op = "add_relationship" /\ ~BothStored(last'.arg))
              => Rejected
        /\ last'.op = "remove_contact" =>
              /\ DOMAIN contacts' = DOMAIN contacts \ {last'.arg}
              /\ \A v \in DOMAIN contacts' : contacts'[v] = contacts[v]
              /\ DOMAIN graph'.edges =
                    {e \in DOMAIN graph.edges :
                        e[1] # last'.arg /\ e[2] # last'.arg}
              /\ \A e \in DOMAIN graph'.edges :
                    graph'.edges[e] = graph.edges[e] ]_vars

C17_Witness ==
    /\ last.op = "remove_contact"
    /\ last.arg = "u2"
    /\ DOMAIN contacts = {"u1"}
    /\ graph.nodes = {"u1"}
    /\ DOMAIN graph.edges = {<<"u1", "u1">>}

(* save and load, over the behaviours of SpecPersist *)

\* the last call was a load that did not raise
Loaded == last.op = "load" /\ last.ret.raises = None

\* every populated field of c has the same value in d
PopulatedEqual(c, d) ==
    /\ d.fn = c.fn
    /\ d.uid = c.uid
    /\ c.rev # None => d.rev = c.rev
    /\ \A f \in simple_fields :
          NonEmptyScalar(c.simple[f]) => d.simple[f] = c.simple[f]
    /\ c.geo # None => d.geo = c.geo
    /\ \A f \in list_fields : c.lists[f] # <<>> => d.lists[f] = c.lists[f]
    /\ d.related = c.related
    /\ \A f \in dict_fields :
          DOMAIN c.dicts[f] # {} => d.dicts[f] = c.dicts[f]

\* C18: saving a store and loading the file into a fresh store, with the
\* JSON codec and with the GraphML codec, gives a store with the same ids
\* in which every populated field of every entity is equal to the
\* original: scalar fields, collection fields, both extension maps,
\* revision, geo and the relationship references (uri, types, text, pref).
C18_EntitiesRoundTrip ==
    Loaded =>
        /\ DOMAIN loaded.contacts = DOMAIN contacts
        /\ \A u \in DOMAIN contacts :
              PopulatedEqual(contacts[u], loaded.contacts[u])

StructuredKeys == list_fields \cup dict_fields \cup {"geo", "related"}

\* C20: in a file written by the JSON codec the node attributes hold
\* list-valued and map-valued fields as JSON arrays and objects of the
\* document, not as JSON text inside a string; only the GraphML codec
\* encodes such fields as JSON text.
C20_JsonNodesNative ==
    (file # None /\ file[1].content.format = "json") =>
        \A u \in DOMAIN file[1].content.nodes :
            \A k \in DOMAIN file[1].content.nodes[u] \cap StructuredKeys :
                file[1].content.nodes[u][k].kind = "native"

(* the filter pipeline, over the behaviours of SpecPipeline *)

Names(fs) == [i \in 1..Len(fs) |-> fs[i].name]

\* the positions of the filters that accept the context
Applicable(context) ==
    {i \in 1..Len(pipeline.filters) :
        context.pipeline_name \in pipeline.filters[i].runs_in}

\* the positions of the applicable filters whose execute raises
Failing(context) ==
    {i \in Applicable(context) : pipeline.filters[i].raises}

\* the contact as the filter at position i receives it: behind it the names
\* of the applicable filters before i that returned
PassedTo(i, contact, context) ==
    contact \o Names(Pick(pipeline.filters,
                          {j \in Applicable(context) \ Failing(context) :
                              j < i}))

\* what run returns for the contact
Processed(contact, context) ==
    PassedTo(Len(pipeline.filters) + 1, contact, context)

\* the on_error calls of one run
HandledBy(contact, context) ==
    [k \in 1..Cardinality(Failing(context)) |->
        [filter |-> pipeline.filters[KthOf(Failing(context), k)].name,
         contact |-> PassedTo(KthOf(Failing(context), k), contact,
                              context)]]

\* C27: after any sequence of register calls the filter list of a pipeline
\* is sorted by ascending priority, filters of equal priority in the order
\* they were registered in; run applies the filters whose should_run
\* accepts the context in exactly that order, each on the contact the
\* previous one returned.
C27_SortedAndRunInOrder ==
    [][ /\ \A i, j \in 1..Len(pipeline'.filters) :
              i < j => pipeline'.filters[i].priority
                          <= pipeline'.filters[j].priority
        /\ last'.op = "register" =>
              \E k \in 0..Len(pipeline.filters) :
                  /\ pipeline'.filters =
                        SubSeq(pipeline.filters, 1, k) \o <<last'.arg>>
                        \o SubSeq(pipeline.filters, k + 1,
                                  Len(pipeline.filters))
                  /\ \A i \in 1..k :
                        pipeline.filters[i].priority <= last'.arg.priority
                  /\ \A i \in (k + 1)..Len(pipeline.filters) :
                        pipeline.filters[i].priority > last'.arg.priority
        /\ last'.op = "run" =>
              /\ pipeline'.filters = pipeline.filters
              /\ last'.ret = Returned(Processed(last'.arg.contact,
                                                last'.arg.context))
      ]_vars

C27_Witness ==
    /\ Names(pipeline.filters) = <<"audit", "uid", "gender">>
    /\ last.op = "run"
    /\ last.arg.context.pipeline_name = "export"
    /\ last.arg.contact = <<"seen">>
    /\ last.ret = Returned(<<"seen", "audit", "uid">>)

\* C28: when a filter raises during run the error is caught and handed to
\* that filter's on_error, every later applicable filter still runs, on the
\* contact as it was passed to the failing filter, and run_batch still
\* processes every remaining contact; no filter error reaches the caller
\* of run or run_batch.
C28_ErrorsContained ==
    [][ /\ last'.op = "run" =>
              /\ last'.ret = Returned(Processed(last'.arg.contact,
                                                last'.arg.context))
              /\ pipeline'.handled = HandledBy(last'.arg.contact,
                                               last'.arg.context)
        /\ last'.op = "run_batch" =>
              /\ last'.ret.raises = None
              /\ Len(last'.ret.value) = Len(last'.arg.contacts)
              /\ \A i \in 1..Len(last'.arg.contacts) :
                    last'.ret.value[i] =
                        Processed(last'.arg.contacts[i], last'.arg.context)
              /\ Len(pipeline'.handled) =
                    Len(last'.arg.contacts)
                    * Cardinality(Failing(last'.arg.context))
      ]_vars

C28_Witness ==
    /\ Names(pipeline.filters) = <<"uid", "broken", "gender">>
    /\ last.op = "run"
    /\ last.arg.context.pipeline_name = "import"
    /\ last.arg.contact = <<>>
    /\ last.ret = Returned(<<"uid", "gender">>)
    /\ pipeline.handled = <<[filter |-> "broken", contact |-> <<"uid">>]>>


\* the check of a folder and the source it names
CheckOp(f) ==
    IF f = "vcf" THEN "check_graph_vcf_consistency"
                 ELSE "check_graph_markdown_consistency"
SourceOf(f) == IF f = "vcf" THEN "vcf_folder" ELSE "markdown_folder"

\* the files of a folder that are contact files of its format with a
\* display name, and the ids and revisions they carry
ContactFiles(f) ==
    {n \in DOMAIN folders[f][1] :
        /\ folders[f][1][n].kind = (IF f = "vcf" THEN "vcard" ELSE "markdown")
        /\ folders[f][1][n].fn # ""}
FolderIds(f) ==
    {folders[f][1][n].uid[1] :
        n \in {x \in ContactFiles(f) : Truthy(folders[f][1][x].uid)}}
FolderRevs(f, u) ==
    {IF folders[f][1][n].rev = None THEN None
        ELSE Some(folders[f][1][n].rev[1].value) :
        n \in {x \in ContactFiles(f) : folders[f][1][x].uid = Some(u)}}

\* how many entries of a type a result holds for an id
CountOf(res, type, u) ==
    Cardinality({i \in DOMAIN res :
                    res[i].type = type /\ res[i].target = Some(u)})

\* C21: the check of the store against an existing folder returns exactly
\* one 'missing' warning for each stored id that no file carries, exactly
\* one 'orphaned' warning for each id a file carries that is not stored,
\* exactly one 'outdated' warning for each id on both sides whose two
\* revisions are present and differ, and nothing else.
C21_OneWarningPerId ==
    \A f \in {"vcf", "markdown"} :
        (last.op = CheckOp(f) /\ folders[f] # None) =>
            LET res == last.ret.value
                S == DOMAIN contacts
                F == FolderIds(f)
            IN /\ last.ret.raises = None
               /\ \A i \in DOMAIN res :
                    /\ res[i].severity = "warning"
                    /\ res[i].source = SourceOf(f)
                    /\ res[i].type \in {"missing", "orphaned", "outdated"}
                    /\ res[i].target \in {Some(u) : u \in S \cup F}
               /\ \A u \in S \cup F :
                    /\ CountOf(res, "missing", u) =
                          (IF u \in S \ F THEN 1 ELSE 0)
                    /\ CountOf(res, "orphaned", u) =
                          (IF u \in F \ S THEN 1 ELSE 0)
                    /\ CountOf(res, "outdated", u) =
                          (IF /\ u \in S \cap F
                              /\ contacts[u].rev # None
                              /\ \E r \in FolderRevs(f, u) :
                                    r # None /\ r # contacts[u].rev
                           THEN 1 ELSE 0)

\* C21 witness: a check of the vCard folder returned an 'outdated' warning
\* for u1 and a 'missing' warning for u2, while the folder also holds a
\* file without id
C21_Witness ==
    /\ last.op = "check_graph_vcf_consistency"
    /\ folders.vcf # None
    /\ DOMAIN folders.vcf[1] = {"Ann", "Zed"}
    /\ DOMAIN contacts = {"u1", "u2"}
    /\ Len(last.ret.value) = 2
    /\ CountOf(last.ret.value, "outdated", "u1") = 1
    /\ CountOf(last.ret.value, "missing", "u2") = 1


\* the source an inconsistency about a folder names
FolderSource(f) ==
    IF f = "vcf" THEN "vcf_folder"
    ELSE IF f = "markdown" THEN "markdown_folder" ELSE "yaml_folder"

\* the entries of a list of inconsistencies that name a source
EntriesOf(res, source) == {i \in DOMAIN res : res[i].source = source}

\* C22: for a configured folder that does not exist the check contributes
\* exactly one inconsistency, of type 'missing' and severity 'error', and
\* nothing else, both when the check of the folder is called directly and
\* in the report of check_all_representations.
C22_MissingFolderOnce ==
    /\ \A f \in {"vcf", "markdown"} :
          (last.op = CheckOp(f) /\ folders[f] = None) =>
              last.ret.value =
                  <<Inconsistency("missing", FolderSource(f), None, "error")>>
    /\ last.op = "check_all_representations" =>
          \A f \in FolderFormats :
              (last.arg[f] /\ folders[f] = None) =>
                  LET res == last.ret.value.inconsistencies
                  IN /\ Cardinality(EntriesOf(res, FolderSource(f))) = 1
                     /\ \A i \in EntriesOf(res, FolderSource(f)) :
                          /\ res[i].type = "missing"
                          /\ res[i].severity = "error"


\* C23: the report of check_all_representations is consistent exactly when
\* its list of inconsistencies is empty, whatever their severity, and the
\* check-consistency command that built a report exits non-zero exactly
\* when the report is not consistent.
C23_ConsistentIffEmpty ==
    /\ last.op = "check_all_representations" =>
          (is_consistent(last.ret.value)
              <=> last.ret.value.inconsistencies = <<>>)
    /\ (last.op = "check_consistency" /\ last.ret.value.report # None) =>
          /\ last.ret.value.exit \in {0, 1}
          /\ last.ret.value.exit # 0
                <=> last.ret.value.report[1].inconsistencies # <<>>

\* C23 witness: the command built a report whose only entry has severity
\* info, and exited with 1
C23_Witness ==
    /\ last.op = "check_consistency"
    /\ last.ret.value.report # None
    /\ Len(last.ret.value.report[1].inconsistencies) = 1
    /\ last.ret.value.report[1].inconsistencies[1].severity = "info"
    /\ last.ret.value.exit = 1


\* C24: check_all_representations compares the store with every folder it
\* is given, YAML included: a stored id without a file in a given, existing
\* folder has a 'missing' entry whose source names that folder, so the
\* report is not consistent.
C24_EveryFolderCompared ==
    last.op = "check_all_representations" =>
        \A f \in FolderFormats :
            (last.arg[f] /\ folders[f] # None) =>
                \A u \in DOMAIN contacts \ FolderIds(f) :
                    /\ \E i \in DOMAIN last.ret.value.inconsistencies :
                          /\ last.ret.value.inconsistencies[i].type = "missing"
                          /\ last.ret.value.inconsistencies[i].source =
                                FolderSource(f)
                          /\ last.ret.value.inconsistencies[i].target = Some(u)
                    /\ ~is_consistent(last.ret.value)


\* the bulk export of a folder's adapter
ExportOp(f) == IF f = "vcf" THEN "bulk_export" ELSE "bulk_export_markdown"

\* what the check of a folder returns for one order of its files
CheckOf(f, cs, folder, order) ==
    IF f = "vcf" THEN check_graph_vcf_consistency(cs, folder, order)
                 ELSE check_graph_markdown_consistency(cs, folder, order)

\* C25: after the bulk export of every stored contact into an empty (or
\* new) folder with the folder's adapter, the check of the store against
\* that folder reports no inconsistency, whatever the population.
C25_ExportThenConsistent ==
    [][\A f \in {"vcf", "markdown"} :
          (/\ last'.op = ExportOp(f)
           /\ last'.ret.raises = None
           /\ (folders[f] = None \/ DOMAIN folders[f][1] = {}))
          => \A o \in Orders(DOMAIN folders'[f][1]) :
                CheckOf(f, contacts', folders'[f], o) = <<>>]_vars


\* the text the adapter of a folder writes for a contact
TextOf(f, c) == IF f = "vcf" THEN to_vcard(c) ELSE to_markdown(c)

\* the revision a file text carries
RevOf(t) == IF t.rev = None THEN None ELSE Some(t.rev[1].value)

\* the change detection of the claim: the file is missing, the contact's
\* revision is newer than the file's, or the two are equal and the text
\* differs
TextChanged(f, c, folder) ==
    \/ folder = None
    \/ filename(c) \notin DOMAIN folder[1]
    \/ /\ c.rev # None
       /\ \/ RevOf(folder[1][filename(c)]) = None
          \/ c.rev[1] > RevOf(folder[1][filename(c)])[1]
    \/ /\ c.rev = RevOf(folder[1][filename(c)])
       /\ TextOf(f, c) # folder[1][filename(c)]

\* the contacts of a list have different file names
DistinctNames(cs) ==
    \A i, j \in DOMAIN cs : i # j => filename(cs[i]) # filename(cs[j])

\* what a bulk export of either adapter returns and leaves on disk
ExportOf(f, cs, folder, force) ==
    IF f = "vcf" THEN bulk_export(cs, folder, Some(force))
                 ELSE bulk_export_markdown(cs, folder, force)

\* C26: a bulk export called with force, by either adapter, returns
\* (written, skipped) with written + skipped the number of contacts;
\* with force=false it writes exactly the files whose contact passes the
\* change detection, so that the same export again writes nothing; with
\* force=true it writes every file.
C26_ExportChangesOnly ==
    [][\A f \in {"vcf", "markdown"} :
          (last'.op = ExportOp(f) /\ last'.arg.force # None) =>
              LET cs == last'.arg.contacts
                  force == last'.arg.force[1]
              IN /\ last'.ret.raises = None
                 /\ Len(last'.ret.value) = 2
                 /\ last'.ret.value[1] + last'.ret.value[2] = Len(cs)
                 /\ force => last'.ret.value[1] = Len(cs)
                 /\ (~force /\ DistinctNames(cs)) =>
                      /\ last'.ret.value[1] =
                            Cardinality({i \in DOMAIN cs :
                                            TextChanged(f, cs[i], folders[f])})
                      /\ \A i \in DOMAIN cs :
                            folders'[f][1][filename(cs[i])] =
                                IF TextChanged(f, cs[i], folders[f])
                                    THEN TextOf(f, cs[i])
                                    ELSE folders[f][1][filename(cs[i])]
                 /\ ~force =>
                      LET again == ExportOf(f, cs, folders'[f], FALSE)
                      IN /\ again.ret.raises = None
                         /\ again.ret.value[1] = 0]_vars


\* what of a graph document is still in another one: every node, with its
\* scalar attributes still there and the elements of its list attributes
\* still in them, and every edge with its attributes
KeptIn(old, new) ==
    /\ \A u \in DOMAIN old.nodes :
          /\ u \in DOMAIN new.nodes
          /\ \A k \in DOMAIN old.nodes[u] \cap serialized_simple :
                k \in DOMAIN new.nodes[u]
          /\ \A k \in DOMAIN old.nodes[u] \cap serialized_lists :
                /\ k \in DOMAIN new.nodes[u]
                /\ Range(old.nodes[u][k].value)
                      \subseteq Range(new.nodes[u][k].value)
    /\ \A e \in DOMAIN old.edges :
          \E d \in DOMAIN new.edges :
              /\ new.edges[d].source = old.edges[e].source
              /\ new.edges[d].target = old.edges[e].target
              /\ \A a \in {"types", "directional", "metadata"} :
                    new.edges[d].attributes[a].value =
                        old.edges[e].attributes[a].value

\* C29: the import command loses nothing that was in the graph file: every
\* id of the file is still in it afterwards, with its list elements, its
\* scalar fields and its edges, whatever the folder holds and whether or
\* not the file could be loaded.
C29_ImportKeepsFile ==
    [][(last'.op = "import_contacts" /\ file # None) =>
          /\ file' # None
          /\ KeptIn(file[1].content, file'[1].content)]_vars

\* C30: a load that raises leaves the graph it was called on as it was;
\* a load that returns leaves it with the content of the file.
C30_FailedLoadKeepsStore ==
    [][last'.op = "load" =>
          IF last'.ret.raises # None
              THEN loaded' = loaded
              ELSE loaded' = load_document(file[1].content)]_vars

=============================================================================
